---- MODULE Spec2Model ----
(***************************************************************************)
(* A state-machine model of banana-portraits: the History Database         *)
(* (src/src/database.py), the API Client Wrapper (src/src/fal_wrapper.py), *)
(* the generate command (src/src/cli.py), the Session Editor               *)
(* (src/src/session_editor_ui.py) and the Local Model Registry             *)
(* (src/src/storage.py).                                                   *)
(*                                                                         *)
(* Conventions.  A Python Optional is a sequence of length at most one:    *)
(* None is <<>> and a present value x is <<x>>.  A prompt is a sequence of *)
(* one-character strings, so that SQL LIKE can be computed on it.  A       *)
(* timestamp is an integer number of ticks; datetime.now() reads clock.    *)
(* Durations (time.time() differences) are integers.                       *)
(***************************************************************************)
EXTENDS Integers, Sequences, FiniteSets, TLC

VARIABLES
    clock,          \* datetime.now(), in ticks
    generations,    \* rows of table generations
    gen_seq,        \* AUTOINCREMENT counter of table generations
    out,            \* what the last History Database / registry call returned
    sessions,       \* rows of table sessions
    session_steps,  \* rows of table session_steps
    sess_seq,       \* AUTOINCREMENT counter of table sessions
    step_seq,       \* AUTOINCREMENT counter of table session_steps
    editors,        \* the open SessionEditorApp instances
    models,         \* StorageManager._models of each registry instance
    models_file,    \* contents of models.json
    cmd             \* the running process: its position, its locals and its
                    \* module-level objects

vars == <<clock, generations, gen_seq, out, sessions, session_steps, sess_seq,
          step_seq, editors, models, models_file, cmd>>

sessVars == <<sessions, session_steps, sess_seq, step_seq, editors>>
regVars == <<models, models_file>>

-----------------------------------------------------------------------------
(* Python values *)

None == <<>>
Some(x) == <<x>>
OrElse(opt, dflt) == IF opt = None THEN dflt ELSE opt[1]

\* the set of the elements of a sequence
Range(s) == {s[i] : i \in 1..Len(s)}

\* Python's str.lower / SQLite's ASCII case folding, on one character
UpperCase == <<"A","B","C","D","E","F","G","H","I","J","K","L","M",
               "N","O","P","Q","R","S","T","U","V","W","X","Y","Z">>
LowerCase == <<"a","b","c","d","e","f","g","h","i","j","k","l","m",
               "n","o","p","q","r","s","t","u","v","w","x","y","z">>
Lower(c) ==
    IF \E i \in 1..Len(UpperCase) : UpperCase[i] = c
    THEN LowerCase[CHOOSE i \in 1..Len(UpperCase) : UpperCase[i] = c]
    ELSE c

\* json.dumps of a list / json.loads of the stored text
json_dumps(list) == [json |-> "array", items |-> list]
json_loads(text) == text.items


-----------------------------------------------------------------------------
(* History Database: table generations (src/src/database.py) *)

\* a Python dict with no keys
EmptyDict == [k \in {} |-> None]

\* dict.get(key) and dict.get(key, default)
DictGet(d, key) == IF key \in DOMAIN d THEN Some(d[key]) ELSE None
DictGetOr(d, key, dflt) == IF key \in DOMAIN d THEN d[key] ELSE dflt

\* parameters of log_generation without a default: a call that leaves one
\* out raises TypeError before the body runs
log_generation_required == {"prompt", "base_model", "result"}
log_generation_defaults ==
    [finetuned_model |-> None, steps |-> None, image_size |-> None,
     num_images |-> 1, generation_time |-> None, success |-> TRUE,
     error_message |-> None, image_paths |-> None, metadata |-> None]

log_generation_binds(kw) == log_generation_required \subseteq DOMAIN kw

log_generation_args(kw) ==
    [k \in DOMAIN log_generation_defaults \cup DOMAIN kw |->
        IF k \in DOMAIN kw THEN kw[k] ELSE log_generation_defaults[k]]

\* a log_generation that reads the raw result whatever success says
log_generation_reads_result_any(a) ==
    a.result # EmptyDict /\ "images" \in DOMAIN a.result

\* "if success and result and 'images' in result": the raw result is read
\* only for a successful generation
log_generation_reads_result(a) ==
    a.success /\ a.result # EmptyDict /\ "images" \in DOMAIN a.result

\* the row log_generation inserts, for bound arguments a, at time ts, as id
log_generation_row(a, ts, id) ==
    LET reads == log_generation_reads_result(a)
        image_urls ==
            IF reads
            THEN [i \in 1..Len(a.result.images) |->
                     DictGetOr(a.result.images[i], "url", "")]
            ELSE <<>>
        seed == IF reads THEN DictGet(a.result, "seed") ELSE None
        no_time == a.generation_time = None \/ a.generation_time = Some(0)
        actual_generation_time ==
            IF reads /\ no_time /\ "timings" \in DOMAIN a.result
            THEN DictGet(a.result.timings, "inference")
            ELSE a.generation_time
    IN  [id |-> id,
         timestamp |-> ts,
         prompt |-> a.prompt,
         base_model |-> a.base_model,
         finetuned_model |-> a.finetuned_model,
         steps |-> a.steps,
         image_size |-> a.image_size,
         num_images |-> a.num_images,
         seed |-> seed,
         image_paths |-> json_dumps(OrElse(a.image_paths, <<>>)),
         image_urls |-> json_dumps(image_urls),
         generation_time |-> actual_generation_time,
         success |-> a.success,
         error_message |-> a.error_message,
         metadata |-> OrElse(a.metadata, EmptyDict)]

\* the table after log_generation(**kw), and the id it returns
log_generation_insert(table, seq, kw, ts) ==
    table \cup {log_generation_row(log_generation_args(kw), ts, seq + 1)}

\* a row as search_generations / get_generation_by_id return it
deserialize(row) ==
    [row EXCEPT !.image_paths = json_loads(row.image_paths),
                !.image_urls = json_loads(row.image_urls)]

get_generation_by_id(table, id) ==
    IF \E r \in table : r.id = id
    THEN Some(deserialize(CHOOSE r \in table : r.id = id))
    ELSE None

delete_generation(table, id) == {r \in table : r.id # id}

update_image_paths(table, id, paths) ==
    {IF r.id = id THEN [r EXCEPT !.image_paths = json_dumps(paths)] ELSE r :
        r \in table}


\* Python truthiness of an Optional[str] filter: None and "" are both falsy
Truthy(opt, empty) == opt # None /\ opt[1] # empty

\* SQLite's LIKE (no ESCAPE, case_sensitive_like off): % matches any run of
\* characters, _ matches any one character, any other character matches
\* itself with ASCII letters compared case-insensitively
RECURSIVE Like(_, _)
Like(pattern, str) ==
    IF pattern = <<>> THEN str = <<>>
    ELSE IF Head(pattern) = "%"
         THEN \E k \in 0..Len(str) :
                 Like(Tail(pattern), SubSeq(str, k + 1, Len(str)))
         ELSE /\ str # <<>>
              /\ Head(pattern) = "_" \/ Lower(Head(pattern)) = Lower(Head(str))
              /\ Like(Tail(pattern), Tail(str))

\* a WHERE clause that leaves the base-model filter out
search_where_any_model(row, q) ==
    /\ Truthy(q.prompt_search, <<>>) =>
          Like(<<"%">> \o q.prompt_search[1] \o <<"%">>, row.prompt)
    /\ Truthy(q.finetuned_model, "") =>
          row.finetuned_model = Some(q.finetuned_model[1])
    /\ q.success_only => row.success

\* the WHERE clause search_generations builds for query q
search_where(row, q) ==
    /\ Truthy(q.prompt_search, <<>>) =>
          Like(<<"%">> \o q.prompt_search[1] \o <<"%">>, row.prompt)
    /\ Truthy(q.base_model, "") => row.base_model = q.base_model[1]
    /\ Truthy(q.finetuned_model, "") =>
          row.finetuned_model = Some(q.finetuned_model[1])
    /\ q.success_only => row.success

\* ORDER BY timestamp DESC: every order of the rows with timestamps
\* non-increasing (rows with equal timestamps come in an order SQLite's plan
\* picks)
order_by_timestamp_desc(rows) ==
    {s \in [1..Cardinality(rows) -> rows] :
        /\ \A i, j \in DOMAIN s : i # j => s[i] # s[j]
        /\ \A i, j \in DOMAIN s : i < j => s[i].timestamp >= s[j].timestamp}

\* LIMIT ? OFFSET ?: a negative limit is no limit, a negative offset is 0
limit_offset(s, limit, offset) ==
    LET off == IF offset < 0 THEN 0 ELSE offset
        last == IF limit < 0 \/ off + limit > Len(s) THEN Len(s) ELSE off + limit
    IN  SubSeq(s, off + 1, last)

\* the lists search_generations(**q) can return
search_generations(table, q) ==
    {[i \in DOMAIN limit_offset(s, q.limit, q.offset) |->
         deserialize(limit_offset(s, q.limit, q.offset)[i])] :
        s \in order_by_timestamp_desc({r \in table : search_where(r, q)})}

\* a quotient of two integers, kept exact (Python computes it in floating
\* point)
Quotient(n, d) == [num |-> n, den |-> d]

\* a get_stats whose per-model counts take failed generations too
get_stats_all_rows(table) ==
    LET total == Cardinality(table)
        successful == Cardinality({r \in table : r.success})
    IN  [total_generations |-> total,
         successful_generations |-> successful,
         failed_generations |-> total - successful,
         success_rate |->
            IF total > 0 THEN Quotient(successful * 100, total)
            ELSE Quotient(0, 1),
         model_counts |->
            [m \in {r.base_model : r \in table} |->
                Cardinality({r \in table : r.base_model = m})],
         avg_generation_times |-> EmptyDict]

get_stats(table) ==
    LET total == Cardinality(table)
        successful == Cardinality({r \in table : r.success})
        counted == {r.base_model : r \in {x \in table : x.success}}
        timed == {r \in table : r.success /\ r.generation_time # None}
        RECURSIVE Sum(_)
        Sum(rows) ==
            IF rows = {} THEN 0
            ELSE LET r == CHOOSE x \in rows : TRUE
                 IN  r.generation_time[1] + Sum(rows \ {r})
    IN  [total_generations |-> total,
         successful_generations |-> successful,
         failed_generations |-> total - successful,
         success_rate |->
            IF total > 0 THEN Quotient(successful * 100, total)
            ELSE Quotient(0, 1),
         model_counts |->
            [m \in counted |->
                Cardinality({r \in table : r.success /\ r.base_model = m})],
         avg_generation_times |->
            [m \in {r.base_model : r \in timed} |->
                Quotient(Sum({r \in timed : r.base_model = m}),
                         Cardinality({r \in timed : r.base_model = m}))]]

\* the calendar: a day is DayLen ticks, a month MonthLen days
DayLen == 2
MonthLen == 3
day_of_month(now) == ((now \div DayLen) % MonthLen) + 1

\* datetime.replace(day=d) raises ValueError unless d is a day of the month
replace_day_ok(d) == d >= 1 /\ d <= MonthLen

\* cutoff_date of cleanup_old_generations: now with its day-of-month
\* replaced by day - keep_days
cleanup_new_day(now, keep_days) == day_of_month(now) - keep_days
cleanup_cutoff(now, keep_days) ==
    now + (cleanup_new_day(now, keep_days) - day_of_month(now)) * DayLen

cleanup_old_generations(table, now, keep_days) ==
    {r \in table : ~(r.timestamp < cleanup_cutoff(now, keep_days))}


-----------------------------------------------------------------------------
(* Operations of the History Database on table generations *)

MaxRows == 2        \* rows ever inserted into one table
MaxClock == 7       \* ticks the clock advances

NoCall == [op |-> "none", args |-> None, ret |-> None, raised |-> None]
Returned(op, args, ret) == [op |-> op, args |-> args, ret |-> ret, raised |-> None]
Raised(op, args, exc) == [op |-> op, args |-> args, ret |-> None, raised |-> Some(exc)]

\* time passes
Tick ==
    /\ clock < MaxClock
    /\ clock' = clock + 1
    /\ UNCHANGED <<generations, gen_seq, out>>
    /\ UNCHANGED <<sessVars, regVars, cmd>>

\* db.log_generation(**kw)
LogGeneration(kw) ==
    /\ gen_seq < MaxRows
    /\ IF log_generation_binds(kw)
       THEN /\ generations' = log_generation_insert(generations, gen_seq, kw, clock)
            /\ gen_seq' = gen_seq + 1
            /\ out' = Returned("log_generation", kw, gen_seq + 1)
       ELSE /\ out' = Raised("log_generation", kw, "TypeError")
            /\ UNCHANGED <<generations, gen_seq>>
    /\ UNCHANGED clock
    /\ UNCHANGED <<sessVars, regVars, cmd>>

\* db.get_generation_by_id(id)
GetGenerationById(id) ==
    /\ out' = Returned("get_generation_by_id", id, get_generation_by_id(generations, id))
    /\ UNCHANGED <<clock, generations, gen_seq>>
    /\ UNCHANGED <<sessVars, regVars, cmd>>

\* db.delete_generation(id)
DeleteGeneration(id) ==
    /\ generations' = delete_generation(generations, id)
    /\ out' = Returned("delete_generation", id, \E r \in generations : r.id = id)
    /\ UNCHANGED <<clock, gen_seq>>
    /\ UNCHANGED <<sessVars, regVars, cmd>>

\* db.update_image_paths(id, paths)
UpdateImagePaths(id, paths) ==
    /\ generations' = update_image_paths(generations, id, paths)
    /\ out' = Returned("update_image_paths", <<id, paths>>,
                       \E r \in generations : r.id = id)
    /\ UNCHANGED <<clock, gen_seq>>
    /\ UNCHANGED <<sessVars, regVars, cmd>>

\* db.search_generations(**q)
SearchGenerations(q) ==
    /\ \E result \in search_generations(generations, q) :
          out' = Returned("search_generations", q, result)
    /\ UNCHANGED <<clock, generations, gen_seq>>
    /\ UNCHANGED <<sessVars, regVars, cmd>>

\* db.get_stats()
GetStats ==
    /\ out' = Returned("get_stats", None, get_stats(generations))
    /\ UNCHANGED <<clock, generations, gen_seq>>
    /\ UNCHANGED <<sessVars, regVars, cmd>>

\* db.cleanup_old_generations(keep_days)
CleanupOldGenerations(keep_days) ==
    /\ IF replace_day_ok(cleanup_new_day(clock, keep_days))
       THEN /\ generations' = cleanup_old_generations(generations, clock, keep_days)
            /\ out' = Returned("cleanup_old_generations", keep_days,
                               Cardinality(generations) -
                               Cardinality(cleanup_old_generations(
                                               generations, clock, keep_days)))
       ELSE /\ out' = Raised("cleanup_old_generations", keep_days, "ValueError")
            /\ UNCHANGED generations
    /\ UNCHANGED <<clock, gen_seq>>
    /\ UNCHANGED <<sessVars, regVars, cmd>>


-----------------------------------------------------------------------------
(* The initial state: an empty data directory, no command running *)

Idle == [pc |-> "idle"]

InitData ==
    /\ clock = 0
    /\ generations = {}
    /\ gen_seq = 0
    /\ out = NoCall
    /\ sessions = {}
    /\ session_steps = {}
    /\ sess_seq = 0
    /\ step_seq = 0
    /\ editors = <<>>

\* no Local Model Registry constructed, no models.json
InitNoRegistry ==
    /\ models = <<>>
    /\ models_file = None

Init == InitData /\ InitNoRegistry /\ cmd = Idle

-----------------------------------------------------------------------------
(* SpecLog: log_generation on every shape of raw result *)

PromptCat == <<"C", "a", "t">>
PromptCod == <<"c", "o", "d">>

Image(url) == [url |-> url]

\* raw service results: no keys, images with a seed, an image without url
\* and timings, an empty images list, and an error body without images
RawResults ==
    {EmptyDict,
     [images |-> <<Image("u1")>>, seed |-> 7],
     [images |-> <<Image("u1"), EmptyDict>>, seed |-> 7,
      timings |-> [inference |-> 3]],
     [images |-> <<>>],
     [detail |-> "error"]}

LogKwargs ==
    {[prompt |-> PromptCat, base_model |-> "flux-dev", result |-> r,
      success |-> ok, generation_time |-> t] :
        r \in RawResults, ok \in BOOLEAN, t \in {None, Some(2)}}
    \cup {[prompt |-> PromptCat, base_model |-> "nano-banana", success |-> TRUE]}

SavedPaths == {<<>>, <<"a.jpg">>, <<"a.jpg", "b.jpg">>}

LogNext ==
    \/ \E kw \in LogKwargs : LogGeneration(kw)
    \/ \E id \in 1..MaxRows : GetGenerationById(id)
    \/ \E id \in 1..MaxRows : DeleteGeneration(id)
    \/ \E id \in 1..MaxRows, paths \in SavedPaths : UpdateImagePaths(id, paths)

SpecLog == Init /\ [][LogNext]_vars


\* C4: log_generation with success=false stores no image URL and no seed,
\* whatever the raw result holds; with success=true and an images list in
\* the result it stores one URL per image and the result's seed.
C4_FailureStoresNoResultData ==
    (out.op = "log_generation" /\ out.raised = None) =>
        LET kw == out.args
            stored == get_generation_by_id(generations, out.ret)[1]
        IN  /\ ~kw.success =>
                  stored.image_urls = <<>> /\ stored.seed = None
            /\ (kw.success /\ "images" \in DOMAIN kw.result) =>
                  /\ Len(stored.image_urls) = Len(kw.result.images)
                  /\ IF "seed" \in DOMAIN kw.result
                     THEN stored.seed = <<kw.result.seed>>
                     ELSE stored.seed = None

\* a failure was logged with a raw result that carries images and a seed
C4_Witness ==
    /\ out.op = "log_generation"
    /\ out.raised = None
    /\ ~out.args.success
    /\ "images" \in DOMAIN out.args.result
    /\ "seed" \in DOMAIN out.args.result
    /\ out.args.result.images # <<>>


-----------------------------------------------------------------------------
(* SpecStats: log, delete, age-based cleanup and statistics over time *)

MaxKeepDays == 2    \* keep_days passed to cleanup_old_generations

StatsKwargs ==
    {[prompt |-> PromptCat, base_model |-> bm, result |-> EmptyDict,
      success |-> ok, generation_time |-> Some(1)] :
        bm \in {"flux-dev", "nano-banana"}, ok \in BOOLEAN}

StatsNext ==
    \/ Tick
    \/ \E kw \in StatsKwargs : LogGeneration(kw)
    \/ \E id \in 1..MaxRows : DeleteGeneration(id)
    \/ \E keep_days \in 0..MaxKeepDays : CleanupOldGenerations(keep_days)
    \/ GetStats

SpecStats == Init /\ [][StatsNext]_vars

\* the sum of a dict's integer values
RECURSIVE SumValues(_)
SumValues(d) ==
    IF DOMAIN d = {} THEN 0
    ELSE LET k == CHOOSE x \in DOMAIN d : TRUE
         IN  d[k] + SumValues([x \in DOMAIN d \ {k} |-> d[x]])

C9_CleanupDeletesOlderThanKeepDays ==
    [][(out'.op = "cleanup_old_generations" /\ clock' = clock) =>
          LET keep_days == out'.args
          IN  /\ generations' =
                    {r \in generations : r.timestamp >= clock - keep_days * DayLen}
              /\ out'.raised = None =>
                    out'.ret = Cardinality(generations) - Cardinality(generations')
      ]_vars


-----------------------------------------------------------------------------
(* SpecSearch: search_generations over histories of mixed records *)

MaxSearchClock == 1     \* ticks the clock advances while searching

SearchTick ==
    /\ clock < MaxSearchClock
    /\ clock' = clock + 1
    /\ UNCHANGED <<generations, gen_seq, out>>
    /\ UNCHANGED <<sessVars, regVars, cmd>>

\* generations that differ in every column a filter reads
SearchKwargs ==
    {[prompt |-> PromptCat, base_model |-> "flux-dev", result |-> EmptyDict,
      finetuned_model |-> Some("lora"), success |-> TRUE],
     [prompt |-> PromptCod, base_model |-> "flux-dev", result |-> EmptyDict,
      finetuned_model |-> None, success |-> TRUE],
     [prompt |-> PromptCat, base_model |-> "nano-banana", result |-> EmptyDict,
      finetuned_model |-> None, success |-> TRUE],
     [prompt |-> PromptCat, base_model |-> "flux-dev", result |-> EmptyDict,
      finetuned_model |-> Some("lora"), success |-> FALSE]}

SearchTexts ==
    {None, Some(<<"c", "a", "t">>), Some(<<"c", "_", "d">>), Some(<<"o", "%">>)}

SearchModels ==
    {[base_model |-> None, finetuned_model |-> None],
     [base_model |-> Some("flux-dev"), finetuned_model |-> None],
     [base_model |-> None, finetuned_model |-> Some("lora")]}

SearchPages ==
    {[limit |-> 1, offset |-> 0], [limit |-> 2, offset |-> 0],
     [limit |-> 1, offset |-> 1]}

Queries ==
    {[prompt_search |-> t, base_model |-> m.base_model,
      finetuned_model |-> m.finetuned_model, success_only |-> so,
      limit |-> pg.limit, offset |-> pg.offset] :
        t \in SearchTexts, m \in SearchModels, so \in BOOLEAN, pg \in SearchPages}

\* a client that searches the history with one query
Searching(q) == [pc |-> "search", query |-> q]

InitSearch == InitData /\ InitNoRegistry /\ cmd \in {Searching(q) : q \in Queries}

RunSearch ==
    /\ cmd.pc = "search"
    /\ SearchGenerations(cmd.query)

SearchNext ==
    \/ SearchTick
    \/ \E kw \in SearchKwargs : LogGeneration(kw)
    \/ RunSearch

SpecSearch == InitSearch /\ [][SearchNext]_vars

\* text occurs in str, character for character
Contains(text, str) ==
    \E i \in 1..(Len(str) + 1) :
        /\ i + Len(text) - 1 <= Len(str)
        /\ SubSeq(str, i, i + Len(text) - 1) = text

\* the pieces of text between its % characters
RECURSIVE Segments(_)
Segments(text) ==
    IF \A i \in 1..Len(text) : text[i] # "%" THEN <<text>>
    ELSE LET i == CHOOSE k \in 1..Len(text) :
                     text[k] = "%" /\ \A j \in 1..(k - 1) : text[j] # "%"
         IN  <<SubSeq(text, 1, i - 1)>> \o Segments(SubSeq(text, i + 1, Len(text)))

\* seg lies in str at position i, an _ of seg standing for any character and
\* ASCII letters compared without regard to case
SegmentAt(seg, str, i) ==
    /\ i + Len(seg) - 1 <= Len(str)
    /\ \A k \in 1..Len(seg) :
          seg[k] = "_" \/ Lower(seg[k]) = Lower(str[i + k - 1])

\* the segments occur in str one after another from position i on
RECURSIVE SegmentsFrom(_, _, _)
SegmentsFrom(segs, str, i) ==
    IF segs = <<>> THEN TRUE
    ELSE \E j \in i..(Len(str) + 1) :
            /\ SegmentAt(Head(segs), str, j)
            /\ SegmentsFrom(Tail(segs), str, j + Len(Head(segs)))

\* text occurs in str case-insensitively, its _ and % acting as wildcards
ContainsLike(text, str) == SegmentsFrom(Segments(text), str, 1)

\* the stored records that satisfy every supplied filter of q, where
\* Occurs(text, prompt) says what "the prompt contains the text" means
Matching(q, Occurs(_, _)) ==
    {deserialize(r) : r \in
        {x \in generations :
            /\ Truthy(q.prompt_search, <<>>) => Occurs(q.prompt_search[1], x.prompt)
            /\ q.base_model # None => x.base_model = q.base_model[1]
            /\ q.finetuned_model # None => x.finetuned_model = q.finetuned_model
            /\ q.success_only => x.success}}

\* res lists rows newest first, skips offset of them and gives at most limit
NewestFirstPage(res, rows, limit, offset) ==
    \E s \in [1..Cardinality(rows) -> rows] :
        /\ \A i, j \in DOMAIN s : i < j =>
              s[i] # s[j] /\ s[i].timestamp >= s[j].timestamp
        /\ Len(res) <= limit
        /\ Len(res) = IF Len(s) - offset < limit
                      THEN (IF Len(s) < offset THEN 0 ELSE Len(s) - offset)
                      ELSE limit
        /\ \A i \in 1..Len(res) : res[i] = s[offset + i]

-----------------------------------------------------------------------------
(* API Client Wrapper (src/src/fal_wrapper.py) *)

NanoMaxImages == 4      \* "Max 4 images for nano-banana"
SchnellMaxSteps == 4    \* "Flux Schnell has max 4 steps"

Min(a, b) == IF a < b THEN a ELSE b

\* the endpoint generate_image calls
generate_image_model(base_model, reference_images) ==
    IF base_model = "nano-banana"
    THEN (IF reference_images # <<>>
          THEN "fal-ai/gemini-25-flash-image/edit"
          ELSE "fal-ai/gemini-25-flash-image")
    ELSE (IF base_model = "flux-schnell" THEN "fal-ai/flux/schnell"
          ELSE "fal-ai/flux/dev")

\* an actual_steps that is never clamped
generate_image_actual_steps_unclamped(base_model, steps) == steps

\* actual_steps of the Flux branch
generate_image_actual_steps(base_model, steps) ==
    IF base_model = "flux-schnell" THEN Min(steps, SchnellMaxSteps) ELSE steps

\* request arguments that pass the image count on as requested
generate_image_arguments_unclamped(a, uploaded_urls) ==
    [prompt |-> a.prompt, num_images |-> a.num_images,
     image_size |-> a.image_size, num_inference_steps |-> a.steps]

\* the arguments of the remote request; a holds the parameters of
\* generate_image, uploaded_urls the URLs of the uploaded reference images
generate_image_arguments(a, uploaded_urls) ==
    IF a.base_model = "nano-banana"
    THEN (IF a.reference_images # <<>>
          THEN [prompt |-> a.prompt, image_urls |-> uploaded_urls,
                num_images |-> Min(a.num_images, NanoMaxImages)]
          ELSE [prompt |-> a.prompt,
                num_images |-> Min(a.num_images, NanoMaxImages)])
    ELSE (IF a.lora_url # None
          THEN [prompt |-> a.prompt, num_images |-> a.num_images,
                image_size |-> a.image_size,
                num_inference_steps |->
                    generate_image_actual_steps(a.base_model, a.steps),
                loras |-> <<[path |-> a.lora_url[1], scale |-> 1]>>]
          ELSE [prompt |-> a.prompt, num_images |-> a.num_images,
                image_size |-> a.image_size,
                num_inference_steps |->
                    generate_image_actual_steps(a.base_model, a.steps)])

\* the notes generate_image prints while it builds the request
generate_image_notes(a) ==
    IF a.base_model = "nano-banana"
    THEN (IF a.num_images > NanoMaxImages THEN {"nano-banana max is 4 images"}
          ELSE {})
         \cup (IF a.lora_url # None THEN {"nano-banana doesn't support LoRA"}
               ELSE {})
    ELSE (IF a.reference_images # <<>> THEN {"ignoring reference images"}
          ELSE {})
         \cup (IF generate_image_actual_steps(a.base_model, a.steps) # a.steps
               THEN {"flux-schnell max is 4 steps"} ELSE {})

\* the keyword arguments generate_image gives _log_generation, which hands
\* all of them on to log_generation
generate_image_log_kwargs(a, arguments, result, generation_time, success, error_message) ==
    [prompt |-> a.prompt,
     base_model |-> a.base_model,
     result |-> result,
     finetuned_model |-> a.lora_url,
     steps |-> IF a.base_model # "nano-banana" THEN Some(a.steps) ELSE None,
     image_size |->
        IF a.base_model # "nano-banana" THEN Some(a.image_size) ELSE None,
     num_images |-> arguments.num_images,
     generation_time |-> Some(generation_time),
     success |-> success,
     error_message |-> error_message,
     image_paths |-> None]

\* "[EDIT] " followed by the prompt
EditPrefix == <<"[", "E", "D", "I", "T", "]", " ">>

\* the keyword arguments edit_image gives log_generation when the remote
\* call returned result: no result is passed
edit_image_log_kwargs_success(prompt, result, generation_time) ==
    [prompt |-> EditPrefix \o prompt,
     base_model |-> "nano-banana",
     success |-> TRUE,
     generation_time |-> Some(generation_time),
     num_images |-> Len(DictGetOr(result, "images", <<>>)),
     error_message |-> None]

\* the keyword arguments edit_image gives log_generation when the remote
\* call raised: no result is passed
edit_image_log_kwargs_failure(prompt, error_message, generation_time) ==
    [prompt |-> EditPrefix \o prompt,
     base_model |-> "nano-banana",
     success |-> FALSE,
     generation_time |-> Some(generation_time),
     error_message |-> Some(error_message)]

\* db_manager.log_generation(**kw) inside "try: ... except Exception": the
\* table afterwards; an exception of the call is swallowed
try_log_generation(table, seq, kw, ts) ==
    IF log_generation_binds(kw)
    THEN log_generation_insert(table, seq, kw, ts)
    ELSE table

\* the AUTOINCREMENT counter afterwards
try_log_generation_seq(seq, kw) ==
    IF log_generation_binds(kw) THEN seq + 1 ELSE seq

\* what _log_generation returns: the new id, or None when the call raised
try_log_generation_id(seq, kw) ==
    IF log_generation_binds(kw) THEN Some(seq + 1) ELSE None


-----------------------------------------------------------------------------
(* Local Model Registry (src/src/storage.py) *)

\* a dump that writes no entry
json_dump_no_entries(registry) == [json |-> "object", items |-> EmptyDict]

\* json.dump(self._models, f): the text of models.json
json_dump(registry) == [json |-> "object", items |-> registry]

\* a _load_models_registry that takes the entries out of any text
load_models_registry_lenient(file) ==
    IF file = None THEN EmptyDict ELSE file[1].items

\* _load_models_registry: the parsed file, or {} when there is no file or
\* its text is not JSON (json.JSONDecodeError is caught)
load_models_registry(file) ==
    IF file = None THEN EmptyDict
    ELSE IF file[1].json = "object" THEN file[1].items
    ELSE EmptyDict

\* a save_model that keeps the entry a name already has
save_model_keeps_first(registry, name, model_info) ==
    [n \in DOMAIN registry \cup {name} |->
        IF n \in DOMAIN registry THEN registry[n] ELSE model_info]

\* self._models after "self._models[name] = model_info"
save_model(registry, name, model_info) ==
    [n \in DOMAIN registry \cup {name} |->
        IF n = name THEN model_info ELSE registry[n]]

\* self._models.get(name)
load_model(registry, name) == DictGet(registry, name)

\* self._models.copy()
list_models(registry) == registry

\* "name in self._models", what delete_model returns
delete_model_returns(registry, name) == name \in DOMAIN registry

\* self._models after "del self._models[name]"
delete_model(registry, name) ==
    [n \in DOMAIN registry \ {name} |-> registry[n]]

-----------------------------------------------------------------------------
(* The generate command (src/src/cli.py) calling generate_image, and a     *)
(* caller of edit_image; cmd holds the position and the locals             *)

FluxDevSteps == 28      \* model_defaults["flux-dev"]
FluxSchnellSteps == 4   \* model_defaults["flux-schnell"]

\* steps of the generate command after "Set model-specific defaults"
generate_default_steps(base_model, steps) ==
    IF steps # None THEN steps
    ELSE IF base_model = "nano-banana" THEN None
    ELSE IF base_model = "flux-schnell" THEN Some(FluxSchnellSteps)
    ELSE Some(FluxDevSteps)

\* "base_" and the base model's name, the tag of a base-model file name
BaseTag(base_model) == <<"base", base_model>>

\* whether the generate command uses the named fine-tuned model
generate_uses_model(inv, registry) ==
    /\ inv.model # None
    /\ inv.model[1] # ""
    /\ inv.base_model # "nano-banana"
    /\ load_model(registry, inv.model[1]) # None

generate_lora_url(inv, registry) ==
    IF generate_uses_model(inv, registry)
    THEN Some(load_model(registry, inv.model[1])[1].lora_url)
    ELSE None

generate_model_name(inv, registry) ==
    IF generate_uses_model(inv, registry) THEN <<"model", inv.model[1]>>
    ELSE BaseTag(inv.base_model)

\* the parameters the generate command gives generate_image
generate_call(inv, registry) ==
    [prompt |-> inv.prompt,
     base_model |-> inv.base_model,
     lora_url |-> generate_lora_url(inv, registry),
     num_images |-> inv.count,
     image_size |-> inv.size,
     steps |-> OrElse(generate_default_steps(inv.base_model, inv.steps), 0),
     reference_images |-> inv.reference_images]

\* the locals of a command that has just started
Frame(pc, a) ==
    [pc |-> pc, a |-> a, model_name |-> <<>>, seq_before |-> gen_seq,
     arguments |-> EmptyDict, notes |-> {}, generation_time |-> 0,
     result |-> EmptyDict, exc |-> None, saved_paths |-> <<>>, i |-> 0,
     echo |-> <<>>]

\* nano-banana generate <options>, up to the call of generate_image
StartGenerate(inv) ==
    /\ cmd.pc = "idle"
    /\ gen_seq < MaxRows
    /\ cmd' = [Frame("generate_image", generate_call(inv, models[1]))
                  EXCEPT !.model_name = generate_model_name(inv, models[1])]
    /\ UNCHANGED <<clock, generations, gen_seq, out, sessVars, regVars>>

\* generate_image, up to "Track generation time": the reference images are
\* uploaded (an upload may raise) and the request is built
BuildRequest ==
    /\ cmd.pc = "generate_image"
    /\ \/ /\ cmd' = [cmd EXCEPT
                !.pc = "subscribe",
                !.arguments = generate_image_arguments(cmd.a,
                    [i \in 1..Len(cmd.a.reference_images) |-> <<"uploaded", i>>]),
                !.notes = generate_image_notes(cmd.a)]
       \/ /\ cmd.a.base_model = "nano-banana"
          /\ cmd.a.reference_images # <<>>
          /\ cmd' = [cmd EXCEPT !.pc = "generate_raised",
                                !.exc = Some("upload failed")]
    /\ UNCHANGED <<clock, generations, gen_seq, out, sessVars, regVars>>


\* what the remote generation endpoint can answer
GenerateResults ==
    {[images |-> <<Image("u1")>>, seed |-> 7],
     [images |-> <<Image("u1"), Image("u2")>>, seed |-> 7],
     [images |-> <<EmptyDict>>],
     [detail |-> "no images"]}

MeasuredTimes == {1}    \* time.time() - start_time

\* fal.subscribe(model, arguments) inside the try of generate_image
Subscribe ==
    /\ cmd.pc = "subscribe"
    /\ \E t \in MeasuredTimes :
          \/ \E r \in GenerateResults :
                cmd' = [cmd EXCEPT !.pc = "log_success", !.result = r,
                                   !.generation_time = t]
          \/ cmd' = [cmd EXCEPT !.pc = "log_failure",
                                !.exc = Some("service error"),
                                !.generation_time = t]
    /\ UNCHANGED <<clock, generations, gen_seq, out, sessVars, regVars>>

\* "Log to database", "Add generation_id to result" and return
LogSuccess ==
    /\ cmd.pc = "log_success"
    /\ LET kw == generate_image_log_kwargs(cmd.a, cmd.arguments, cmd.result,
                                           cmd.generation_time, TRUE, None)
           id == try_log_generation_id(gen_seq, kw)
       IN  /\ generations' = try_log_generation(generations, gen_seq, kw, clock)
           /\ gen_seq' = try_log_generation_seq(gen_seq, kw)
           /\ cmd' = [cmd EXCEPT
                 !.pc = "returned",
                 !.result = [k \in DOMAIN cmd.result \cup {"_generation_id"} |->
                                IF k = "_generation_id" THEN id
                                ELSE cmd.result[k]]]
    /\ UNCHANGED <<clock, out, sessVars, regVars>>

\* "Log failed generation"
LogFailure ==
    /\ cmd.pc = "log_failure"
    /\ LET kw == generate_image_log_kwargs(cmd.a, cmd.arguments, EmptyDict,
                                           cmd.generation_time, FALSE, cmd.exc)
       IN  /\ generations' = try_log_generation(generations, gen_seq, kw, clock)
           /\ gen_seq' = try_log_generation_seq(gen_seq, kw)
    /\ cmd' = [cmd EXCEPT !.pc = "reraise"]
    /\ UNCHANGED <<clock, out, sessVars, regVars>>

\* the bare "raise" that ends the except block of generate_image
Reraise ==
    /\ cmd.pc = "reraise"
    /\ cmd' = [cmd EXCEPT !.pc = "generate_raised"]
    /\ UNCHANGED <<clock, generations, gen_seq, out, sessVars, regVars>>

\* "if 'images' in result": the command starts saving, or reports failure
InspectResult ==
    /\ cmd.pc = "returned"
    /\ IF "images" \in DOMAIN cmd.result
       THEN cmd' = [cmd EXCEPT
                !.pc = IF cmd.result.images = <<>> THEN "backfill" ELSE "save",
                !.i = 1,
                !.echo = Append(cmd.echo, "Generated")]
       ELSE cmd' = [cmd EXCEPT !.pc = "done",
                               !.echo = Append(cmd.echo, "Image generation failed")]
    /\ UNCHANGED <<clock, generations, gen_seq, out, sessVars, regVars>>

\* one round of "for i, image_data in enumerate(result['images'])": the
\* image is downloaded and saved (the download may raise) or has no url
SaveImage ==
    /\ cmd.pc = "save"
    /\ LET url == DictGetOr(cmd.result.images[cmd.i], "url", "")
           next == IF cmd.i = Len(cmd.result.images) THEN "backfill" ELSE "save"
       IN  \/ /\ url = ""
              /\ cmd' = [cmd EXCEPT !.pc = next, !.i = cmd.i + 1]
           \/ /\ url # ""
              /\ cmd' = [cmd EXCEPT
                    !.pc = next, !.i = cmd.i + 1,
                    !.saved_paths =
                        Append(cmd.saved_paths, <<cmd.model_name, clock, cmd.i>>),
                    !.echo = Append(cmd.echo, "Saved")]
           \/ /\ url # ""
              /\ cmd' = [cmd EXCEPT !.pc = "save_raised",
                                    !.exc = Some("download failed")]
    /\ UNCHANGED <<clock, generations, gen_seq, out, sessVars, regVars>>

\* "Update database with image paths"
Backfill ==
    /\ cmd.pc = "backfill"
    /\ IF "_generation_id" \in DOMAIN cmd.result /\ cmd.saved_paths # <<>>
       THEN generations' =
                IF cmd.result._generation_id = None THEN generations
                ELSE update_image_paths(generations,
                                        cmd.result._generation_id[1],
                                        cmd.saved_paths)
       ELSE UNCHANGED generations
    /\ cmd' = [cmd EXCEPT !.pc = "done",
                          !.echo = Append(cmd.echo, "Images saved to")]
    /\ UNCHANGED <<clock, gen_seq, out, sessVars, regVars>>

\* "except Exception as e" of the generate command
HandleException ==
    /\ cmd.pc \in {"generate_raised", "save_raised"}
    /\ cmd' = [cmd EXCEPT !.pc = "done",
                          !.echo = Append(cmd.echo, "Error during generation")]
    /\ UNCHANGED <<clock, generations, gen_seq, out, sessVars, regVars>>

\* the command's process ends
Exit ==
    /\ cmd.pc \in {"done", "edit_returned", "edit_raised"}
    /\ cmd' = Idle
    /\ UNCHANGED <<clock, generations, gen_seq, out, sessVars, regVars>>


\* what the remote edit endpoint can answer
EditResults == {[images |-> <<Image("e1")>>], [images |-> <<>>]}

\* a caller (an editor) calls edit_image(prompt, image_urls)
StartEdit(prompt, image_urls) ==
    /\ cmd.pc = "idle"
    /\ gen_seq < MaxRows
    /\ cmd' = Frame("edit_image", [prompt |-> prompt, image_urls |-> image_urls])
    /\ UNCHANGED <<clock, generations, gen_seq, out, sessVars, regVars>>

\* fal.subscribe(model, arguments) inside the try of edit_image
EditSubscribe ==
    /\ cmd.pc = "edit_image"
    /\ \E t \in MeasuredTimes :
          \/ \E r \in EditResults :
                cmd' = [cmd EXCEPT !.pc = "edit_log_success", !.result = r,
                                   !.generation_time = t,
                                   !.arguments = cmd.a]
          \/ cmd' = [cmd EXCEPT !.pc = "edit_log_failure",
                                !.exc = Some("service error"),
                                !.generation_time = t,
                                !.arguments = cmd.a]
    /\ UNCHANGED <<clock, generations, gen_seq, out, sessVars, regVars>>

\* "Log to database if available" and return result
EditLogSuccess ==
    /\ cmd.pc = "edit_log_success"
    /\ LET kw == edit_image_log_kwargs_success(cmd.a.prompt, cmd.result,
                                               cmd.generation_time)
       IN  /\ generations' = try_log_generation(generations, gen_seq, kw, clock)
           /\ gen_seq' = try_log_generation_seq(gen_seq, kw)
    /\ cmd' = [cmd EXCEPT !.pc = "edit_returned"]
    /\ UNCHANGED <<clock, out, sessVars, regVars>>

\* "Log failed generation" and raise e
EditLogFailure ==
    /\ cmd.pc = "edit_log_failure"
    /\ LET kw == edit_image_log_kwargs_failure(cmd.a.prompt, cmd.exc[1],
                                               cmd.generation_time)
       IN  /\ generations' = try_log_generation(generations, gen_seq, kw, clock)
           /\ gen_seq' = try_log_generation_seq(gen_seq, kw)
    /\ cmd' = [cmd EXCEPT !.pc = "edit_raised"]
    /\ UNCHANGED <<clock, out, sessVars, regVars>>

-----------------------------------------------------------------------------
(* SpecGen: generate commands and edit calls, one after another *)

\* the registry the generate command finds: one fine-tuned model
FaceRegistry == [n \in {"face"} |-> [lora_url |-> "lora-url", trigger_word |-> "NANO"]]

InitGen ==
    /\ InitData
    /\ models = <<FaceRegistry>>
    /\ models_file = Some(json_dump(FaceRegistry))
    /\ cmd = Idle

MaxCount == 5       \* --count of the generate command

\* command lines of the generate command
Invocations ==
    {[prompt |-> PromptCat, base_model |-> bm, model |-> None,
      reference_images |-> <<>>, count |-> c, size |-> "landscape_16_9",
      steps |-> None] :
        bm \in {"flux-dev", "flux-schnell", "nano-banana"}, c \in {1, MaxCount}}
    \cup
    {[prompt |-> PromptCat, base_model |-> "nano-banana", model |-> Some("face"),
      reference_images |-> <<"ref.png">>, count |-> 2, size |-> "square",
      steps |-> None],
     [prompt |-> PromptCat, base_model |-> "flux-dev", model |-> Some("face"),
      reference_images |-> <<"ref.png">>, count |-> 2, size |-> "square",
      steps |-> Some(SchnellMaxSteps + 1)],
     [prompt |-> PromptCat, base_model |-> "flux-schnell", model |-> Some("nobody"),
      reference_images |-> <<>>, count |-> 1, size |-> "square",
      steps |-> Some(SchnellMaxSteps + 1)]}

GenNext ==
    \/ \E inv \in Invocations : StartGenerate(inv)
    \/ BuildRequest
    \/ Subscribe
    \/ LogSuccess
    \/ LogFailure
    \/ Reraise
    \/ InspectResult
    \/ SaveImage
    \/ Backfill
    \/ HandleException
    \/ StartEdit(PromptCod, <<"u0">>)
    \/ EditSubscribe
    \/ EditLogSuccess
    \/ EditLogFailure
    \/ Exit

SpecGen == InitGen /\ [][GenNext]_vars

\* the records written since the running call began
WrittenByCall == {r \in generations : r.id > cmd.seq_before}

\* C1: every generate_image call with a History Database attached writes
\* exactly one generation record, whether the call returns or raises; a
\* raising call's record has success=false and the stringified exception as
\* error message, and is written before the error reaches the caller.
C1_GenerateWritesOneRecord ==
    cmd.pc \in {"returned", "generate_raised"} =>
        /\ Cardinality(WrittenByCall) = 1
        /\ cmd.pc = "generate_raised" =>
              \A r \in WrittenByCall :
                  ~r.success /\ r.error_message = cmd.exc

\* C2: every edit_image call with a History Database attached adds one
\* generation record with prompt "[EDIT] " + prompt, base model
\* "nano-banana", the outcome and the measured duration, before the call
\* returns or re-raises.
C2_EditWritesOneRecord ==
    cmd.pc \in {"edit_returned", "edit_raised"} =>
        /\ Cardinality(WrittenByCall) = 1
        /\ \A r \in WrittenByCall :
              /\ r.prompt = EditPrefix \o cmd.a.prompt
              /\ r.base_model = "nano-banana"
              /\ r.success = (cmd.pc = "edit_returned")
              /\ r.generation_time = Some(cmd.generation_time)

\* C3: when the generate command finishes with a generation-record
\* identifier in the result and at least one image saved locally, the
\* record fetched by that id holds exactly the saved paths.
C3_SavedPathsBackfilled ==
    (/\ cmd.pc = "done"
     /\ "_generation_id" \in DOMAIN cmd.result
     /\ cmd.saved_paths # <<>>) =>
        /\ cmd.result._generation_id # None
        /\ get_generation_by_id(generations, cmd.result._generation_id[1]) # None
        /\ get_generation_by_id(generations,
                                cmd.result._generation_id[1])[1].image_paths
              = cmd.saved_paths

-----------------------------------------------------------------------------
(* History Database: tables sessions and session_steps                     *)
(* (src/src/database.py).  A path is a sequence; the empty path "" is <<>> *)

\* the row create_session inserts
create_session_row(id, name, initial_image_path, description, ts) ==
    [id |-> id, name |-> name, created_timestamp |-> ts,
     updated_timestamp |-> ts, initial_image_path |-> initial_image_path,
     description |-> description]

\* table sessions after create_session; it returns seq + 1
create_session(table, seq, name, initial_image_path, description, ts) ==
    table \cup {create_session_row(seq + 1, name, initial_image_path,
                                   description, ts)}

\* "UPDATE sessions SET updated_timestamp = ? WHERE id = ?"
add_session_step_update(table, session_id, ts) ==
    {IF s.id = session_id THEN [s EXCEPT !.updated_timestamp = ts] ELSE s :
        s \in table}

\* "INSERT INTO session_steps": no check that the session exists, none that
\* the step number is new
add_session_step_insert(table, seq, step, ts) ==
    table \cup {[id |-> seq + 1,
                 session_id |-> step.session_id,
                 step_number |-> step.step_number,
                 prompt |-> step.prompt,
                 image_path |-> step.image_path,
                 timestamp |-> ts,
                 success |-> step.success,
                 error_message |-> step.error_message,
                 generation_time |-> step.generation_time]}

\* the rows of table session_steps joined to a session
steps_of(steps, session_id) == {ss \in steps : ss.session_id = session_id}

\* "SELECT s.*, COUNT(ss.id) as step_count ... LEFT JOIN ... GROUP BY s.id"
session_with_count(s, steps) ==
    [id |-> s.id, name |-> s.name,
     created_timestamp |-> s.created_timestamp,
     updated_timestamp |-> s.updated_timestamp,
     initial_image_path |-> s.initial_image_path,
     description |-> s.description,
     step_count |-> Cardinality(steps_of(steps, s.id))]

\* the lists get_sessions() can return: newest update first, sessions with
\* equal update times in any order
get_sessions(table, steps) ==
    {[i \in DOMAIN s |-> session_with_count(s[i], steps)] :
        s \in {t \in [1..Cardinality(table) -> table] :
                 /\ \A i, j \in DOMAIN t : i # j => t[i] # t[j]
                 /\ \A i, j \in DOMAIN t :
                       i < j => t[i].updated_timestamp >= t[j].updated_timestamp}}

\* get_session_by_id(session_id): the session with its step count, or None
get_session_by_id(table, steps, session_id) ==
    IF \E s \in table : s.id = session_id
    THEN Some(session_with_count(CHOOSE s \in table : s.id = session_id, steps))
    ELSE None

\* the lists get_session_steps(session_id) can return: "ORDER BY
\* step_number ASC", steps with equal numbers in any order
get_session_steps(steps, session_id) ==
    LET mine == steps_of(steps, session_id)
    IN  {t \in [1..Cardinality(mine) -> mine] :
            /\ \A i, j \in DOMAIN t : i # j => t[i] # t[j]
            /\ \A i, j \in DOMAIN t :
                  i < j => t[i].step_number <= t[j].step_number}

\* a delete_session that leaves the step rows
delete_session_steps_kept(steps, session_id) == steps

\* "DELETE FROM session_steps WHERE session_id = ?"
delete_session_steps(steps, session_id) ==
    {ss \in steps : ss.session_id # session_id}

\* "DELETE FROM sessions WHERE id = ?"
delete_session_rows(table, session_id) == {s \in table : s.id # session_id}

\* cursor.rowcount > 0
delete_session_returns(table, session_id) == \E s \in table : s.id = session_id

-----------------------------------------------------------------------------
(* Session Editor (src/src/session_editor_ui.py) *)

\* str.strip() of an input value
strip(s) ==
    IF \A i \in DOMAIN s : s[i] = " " THEN <<>>
    ELSE LET inked == {i \in DOMAIN s : s[i] # " "}
             first == CHOOSE i \in inked : \A j \in inked : i <= j
             last == CHOOSE i \in inked : \A j \in inked : i >= j
         IN  SubSeq(s, first, last)

InitialImagePrompt ==
    <<"I", "n", "i", "t", "i", "a", "l", " ", "I", "m", "a", "g", "e">>

\* the synthetic step 0 refresh_step_list puts first in the list
initial_step(session) ==
    [step_number |-> 0, prompt |-> InitialImagePrompt,
     image_path |-> session.initial_image_path, success |-> TRUE]

\* a SessionEditorApp that is not running
ClosedEditor ==
    [running |-> FALSE, session_id |-> 0, session |-> None, steps |-> <<>>,
     selected_step |-> None, notice |-> ""]

\* SessionEditorApp(session_id, ...) after __init__
NewEditor(session_id) ==
    [running |-> TRUE, session_id |-> session_id, session |-> None,
     steps |-> <<>>, selected_step |-> None, notice |-> ""]

\* load_session_data, given the list get_session_steps returned
load_session_data(ed, table, steps, list) ==
    [ed EXCEPT !.session = get_session_by_id(table, steps, ed.session_id),
               !.steps = list]

\* the step_data of the rows refresh_step_list shows: step 0 and the steps,
\* or nothing when the session was not found
step_list(ed) ==
    IF ed.session = None THEN <<>>
    ELSE <<initial_step(ed.session[1])>> \o ed.steps

\* the editor in slot e becomes ed
PutEditor(e, ed) ==
    IF e \in DOMAIN editors THEN [editors EXCEPT ![e] = ed]
    ELSE Append(editors, ed)

\* a next step number that repeats the last one
apply_edit_next_step_number_same(steps) == Len(steps)

\* next_step_number of apply_edit
apply_edit_next_step_number(steps) == Len(steps) + 1

\* what the environment answers during apply_edit: whether the upload
\* succeeded, what edit_image returned (None: it raised), whether the
\* download succeeded
ApplyEditAnswers ==
    {[uploaded |-> FALSE, result |-> None, downloaded |-> FALSE],
     [uploaded |-> TRUE, result |-> None, downloaded |-> FALSE],
     [uploaded |-> TRUE, result |-> Some([images |-> <<>>]), downloaded |-> FALSE],
     [uploaded |-> TRUE, result |-> Some([images |-> <<Image("e1")>>]),
      downloaded |-> FALSE],
     [uploaded |-> TRUE, result |-> Some([images |-> <<Image("e1")>>]),
      downloaded |-> TRUE]}

\* str(e) of the exception apply_edit catches, None when it catches none;
\* a failed upload and a failed download raise the same network error
apply_edit_error(answer) ==
    IF ~answer.uploaded THEN Some("network error")
    ELSE IF answer.result = None THEN Some("service error")
    ELSE IF ~("images" \in DOMAIN answer.result[1]
              /\ answer.result[1].images # <<>>)
         THEN Some("No edited image returned from API")
    ELSE IF ~answer.downloaded THEN Some("network error")
    ELSE None

\* the arguments apply_edit gives add_session_step
apply_edit_step(ed, prompt, answer, generation_time, ts) ==
    LET next_step_number == apply_edit_next_step_number(ed.steps)
        error == apply_edit_error(answer)
    IN  [session_id |-> ed.session_id,
         step_number |-> next_step_number,
         prompt |-> prompt,
         image_path |->
            IF error = None
            THEN <<"session", ed.session_id, "step", next_step_number, ts>>
            ELSE <<>>,
         success |-> (error = None),
         error_message |-> error,
         generation_time |-> Some(generation_time)]

\* the keyword arguments edit_image gives log_generation during apply_edit
apply_edit_log_kwargs(prompt, answer, generation_time) ==
    IF answer.result = None
    THEN edit_image_log_kwargs_failure(prompt, "service error", generation_time)
    ELSE edit_image_log_kwargs_success(prompt, answer.result[1], generation_time)

-----------------------------------------------------------------------------
(* SpecSession: sessions are created and deleted, and edited through the   *)
(* Session Editor, one editor at a time                                    *)

MaxSessions == 2        \* sessions ever created
MaxSteps == 2           \* steps ever added
\* db.create_session(name, initial_image_path)
CreateSession(name, initial_image_path) ==
    /\ sess_seq < MaxSessions
    /\ sessions' = create_session(sessions, sess_seq, name, initial_image_path,
                                  "", clock)
    /\ sess_seq' = sess_seq + 1
    /\ out' = Returned("create_session",
                       [name |-> name, initial_image_path |-> initial_image_path],
                       sess_seq + 1)
    /\ UNCHANGED <<clock, generations, gen_seq, session_steps, step_seq,
                   editors, regVars, cmd>>

\* db.delete_session(session_id)
DeleteSession(session_id) ==
    /\ session_steps' = delete_session_steps(session_steps, session_id)
    /\ sessions' = delete_session_rows(sessions, session_id)
    /\ out' = Returned("delete_session", session_id,
                       delete_session_returns(sessions, session_id))
    /\ UNCHANGED <<clock, generations, gen_seq, sess_seq, step_seq, editors,
                   regVars, cmd>>

\* SessionEditorApp(session_id, ...).run() up to the end of on_mount
OpenEditor(e, session_id) ==
    /\ \/ e = Len(editors) + 1
       \/ e \in DOMAIN editors /\ ~editors[e].running
    /\ \E list \in get_session_steps(session_steps, session_id) :
          LET loaded == load_session_data(NewEditor(session_id), sessions,
                                          session_steps, list)
          IN  /\ editors' = PutEditor(e,
                    IF list # <<>>
                    THEN [loaded EXCEPT !.selected_step = Some(list[Len(list)])]
                    ELSE loaded)
              /\ out' = Returned("get_session_steps", session_id, list)
    /\ UNCHANGED <<clock, generations, gen_seq, sessions, session_steps,
                   sess_seq, step_seq, regVars, cmd>>

\* on_step_selected: the user selects row k of the step list
SelectStep(e, k) ==
    /\ e \in DOMAIN editors
    /\ editors[e].running
    /\ k \in DOMAIN step_list(editors[e])
    /\ editors' = [editors EXCEPT
                      ![e].selected_step = Some(step_list(editors[e])[k])]
    /\ UNCHANGED <<clock, generations, gen_seq, out, sessions, session_steps,
                   sess_seq, step_seq, regVars, cmd>>

\* on_edit_submitted and the apply_edit it calls
SubmitEdit(e, value) ==
    /\ e \in DOMAIN editors
    /\ editors[e].running
    /\ step_seq < MaxSteps
    /\ LET ed == editors[e]
           prompt == strip(value)
       IN  IF prompt = <<>>
           THEN UNCHANGED vars
           ELSE IF ed.selected_step = None
           THEN /\ editors' = [editors EXCEPT ![e].notice = "No step selected"]
                /\ UNCHANGED <<clock, generations, gen_seq, out, sessions,
                               session_steps, sess_seq, step_seq, regVars, cmd>>
           ELSE \E answer \in ApplyEditAnswers, t \in MeasuredTimes :
                  LET step == apply_edit_step(ed, prompt, answer, t, clock)
                      kw == apply_edit_log_kwargs(prompt, answer, t)
                      table == add_session_step_update(sessions, ed.session_id,
                                                       clock)
                      rows == add_session_step_insert(session_steps, step_seq,
                                                      step, clock)
                  IN  /\ generations' =
                            IF answer.uploaded
                            THEN try_log_generation(generations, gen_seq, kw, clock)
                            ELSE generations
                      /\ gen_seq' =
                            IF answer.uploaded
                            THEN try_log_generation_seq(gen_seq, kw)
                            ELSE gen_seq
                      /\ sessions' = table
                      /\ session_steps' = rows
                      /\ step_seq' = step_seq + 1
                      /\ \E list \in get_session_steps(rows, ed.session_id) :
                            LET loaded == load_session_data(ed, table, rows, list)
                            IN  /\ editors' = PutEditor(e,
                                      IF step.success
                                      THEN [loaded EXCEPT
                                              !.selected_step =
                                                  IF list # <<>>
                                                  THEN Some(list[Len(list)])
                                                  ELSE ed.selected_step,
                                              !.notice = "Edit applied successfully"]
                                      ELSE [loaded EXCEPT !.notice = "Edit failed"])
                                /\ out' = Returned("get_session_steps",
                                                   ed.session_id, list)
                      /\ UNCHANGED <<clock, sess_seq, regVars, cmd>>

\* action_refresh
Refresh(e) ==
    /\ e \in DOMAIN editors
    /\ editors[e].running
    /\ \E list \in get_session_steps(session_steps, editors[e].session_id) :
          /\ editors' = PutEditor(e, load_session_data(editors[e], sessions,
                                                       session_steps, list))
          /\ out' = Returned("get_session_steps", editors[e].session_id, list)
    /\ UNCHANGED <<clock, generations, gen_seq, sessions, session_steps,
                   sess_seq, step_seq, regVars, cmd>>

\* action_quit / action_switch_session: the editor exits
CloseEditor(e) ==
    /\ e \in DOMAIN editors
    /\ editors[e].running
    /\ editors' = [editors EXCEPT ![e] = ClosedEditor]
    /\ UNCHANGED <<clock, generations, gen_seq, out, sessions, session_steps,
                   sess_seq, step_seq, regVars, cmd>>

\* what the user types into the edit input
SubmittedValues == {<<" ">>, <<" ", "c", "o", "d", " ">>}

InitialImagePath == <<"init.png">>

SessionNext ==
    \/ CreateSession("Session 1", InitialImagePath)
    \/ \E id \in 1..MaxSessions : DeleteSession(id)
    \/ \E s \in sessions : OpenEditor(1, s.id)
    \/ \E k \in 1..(MaxSteps + 1) : SelectStep(1, k)
    \/ \E value \in SubmittedValues : SubmitEdit(1, value)
    \/ Refresh(1)
    \/ CloseEditor(1)

SpecSession == Init /\ [][SessionNext]_vars

\* C7: for every session, edited through one Session Editor at a time, the
\* persisted steps have pairwise distinct step numbers that are exactly
\* 1..N in insertion order, get_session_steps returns them in ascending
\* order, and get_sessions and get_session_by_id report step_count = N.
C7_StepNumbersOneToN ==
    \A s \in sessions :
        LET mine == steps_of(session_steps, s.id)
            N == Cardinality(mine)
        IN  /\ \A a, b \in mine : a.step_number = b.step_number => a = b
            /\ {a.step_number : a \in mine} = 1..N
            /\ \A a, b \in mine : a.id < b.id <=> a.step_number < b.step_number
            /\ \A list \in get_session_steps(session_steps, s.id) :
                  /\ Len(list) = N
                  /\ \A i \in DOMAIN list : list[i].step_number = i
            /\ get_session_by_id(sessions, session_steps, s.id)[1].step_count = N
            /\ \A list \in get_sessions(sessions, session_steps) :
                  \A i \in DOMAIN list :
                      list[i].id = s.id => list[i].step_count = N

\* a session holds two steps, a failed one and a successful one, and the
\* editor that added them has reloaded both
C7_Witness ==
    /\ Len(editors) = 1
    /\ editors[1].running
    /\ Len(editors[1].steps) = 2
    /\ \E s \in sessions :
          /\ s.id = editors[1].session_id
          /\ Cardinality(steps_of(session_steps, s.id)) = 2
          /\ \E a, b \in steps_of(session_steps, s.id) : a.success /\ ~b.success

\* C8: delete_session(id) removes the session row and all its step rows
\* (get_session_steps(id) is empty and get_session_by_id(id) absent
\* afterwards), returns true iff the session existed, and leaves every other
\* session and the steps of every other session unchanged.
C8_DeleteSessionRemovesSessionAndSteps ==
    [][(out'.op = "delete_session" /\ editors' = editors) =>
          LET id == out'.args
          IN  /\ get_session_steps(session_steps', id) = {<<>>}
              /\ get_session_by_id(sessions', session_steps', id) = None
              /\ out'.raised = None
              /\ out'.ret = (\E s \in sessions : s.id = id)
              /\ sessions' = {s \in sessions : s.id # id}
              /\ {ss \in session_steps' : ss.session_id # id}
                    = {ss \in session_steps : ss.session_id # id}
      ]_vars

\* a session that had steps has just been deleted, and another session
\* still has its step
C8_Witness ==
    /\ out.op = "delete_session"
    /\ out.ret = TRUE
    /\ Len(editors) = 1
    /\ editors[1].session_id = out.args
    /\ editors[1].steps # <<>>
    /\ \E s \in sessions : steps_of(session_steps, s.id) # {}

-----------------------------------------------------------------------------
(* SpecRegistry: Local Model Registry instances over one models.json *)

MaxInstances == 2       \* StorageManager instances constructed

RegistryNames == {"face", "pet"}
ModelInfos ==
    {[lora_url |-> "lora-a", trigger_word |-> "NANO"],
     [lora_url |-> "lora-b", trigger_word |-> "TOK"]}

\* StorageManager()
NewStorageManager ==
    /\ Len(models) < MaxInstances
    /\ models' = Append(models, load_models_registry(models_file))
    /\ out' = Returned("StorageManager", [instance |-> Len(models) + 1], None)
    /\ UNCHANGED <<clock, generations, gen_seq, sessVars, models_file, cmd>>

\* storage.save_model(name, model_info) on instance i
SaveModel(i, name, model_info) ==
    /\ i \in DOMAIN models
    /\ models' = [models EXCEPT ![i] = save_model(models[i], name, model_info)]
    /\ models_file' = Some(json_dump(save_model(models[i], name, model_info)))
    /\ out' = Returned("save_model",
                       [instance |-> i, name |-> name, model_info |-> model_info],
                       None)
    /\ UNCHANGED <<clock, generations, gen_seq, sessVars, cmd>>

\* storage.load_model(name) on instance i
LoadModel(i, name) ==
    /\ i \in DOMAIN models
    /\ out' = Returned("load_model", [instance |-> i, name |-> name],
                       load_model(models[i], name))
    /\ UNCHANGED <<clock, generations, gen_seq, sessVars, regVars, cmd>>

\* storage.list_models() on instance i
ListModels(i) ==
    /\ i \in DOMAIN models
    /\ out' = Returned("list_models", [instance |-> i], list_models(models[i]))
    /\ UNCHANGED <<clock, generations, gen_seq, sessVars, regVars, cmd>>

\* storage.delete_model(name) on instance i
DeleteModel(i, name) ==
    /\ i \in DOMAIN models
    /\ IF delete_model_returns(models[i], name)
       THEN /\ models' = [models EXCEPT ![i] = delete_model(models[i], name)]
            /\ models_file' = Some(json_dump(delete_model(models[i], name)))
       ELSE UNCHANGED <<models, models_file>>
    /\ out' = Returned("delete_model", [instance |-> i, name |-> name],
                       delete_model_returns(models[i], name))
    /\ UNCHANGED <<clock, generations, gen_seq, sessVars, cmd>>

\* the text "invalid json {": the dump of a registry, cut short
InvalidJsonText == [json |-> "invalid", items |-> FaceRegistry]

\* models_file.write_text("invalid json {"): the file is damaged from outside
WriteInvalidJson ==
    /\ models_file # Some(InvalidJsonText)
    /\ models_file' = Some(InvalidJsonText)
    /\ out' = Returned("write_text", None, None)
    /\ UNCHANGED <<clock, generations, gen_seq, sessVars, models, cmd>>

RegistryNext ==
    \/ NewStorageManager
    \/ WriteInvalidJson
    \/ \E i \in 1..MaxInstances, name \in RegistryNames, info \in ModelInfos :
          SaveModel(i, name, info)
    \/ \E i \in 1..MaxInstances, name \in RegistryNames : LoadModel(i, name)
    \/ \E i \in 1..MaxInstances : ListModels(i)
    \/ \E i \in 1..MaxInstances, name \in RegistryNames : DeleteModel(i, name)

SpecRegistry == Init /\ [][RegistryNext]_vars

\* the other instances' registries, and the other names of instance i, are
\* what they were
OthersKept(i, name) ==
    /\ Len(models') = Len(models)
    /\ \A j \in DOMAIN models : j # i => models'[j] = models[j]
    /\ \A n \in RegistryNames \ {name} :
          load_model(models'[i], n) = load_model(models[i], n)

\* C10: on one Local Model Registry, save_model(name, info) makes
\* load_model(name) return info and list_models hold name, leaving the
\* other names as they were; delete_model(name) returns true iff name was
\* saved, makes load_model(name) absent and removes name from list_models,
\* and a delete of an absent name returns false, raises nothing and changes
\* neither the registry nor its file; load_model and list_models change
\* nothing and agree with each other.  Hence load_model returns the map
\* most recently saved under the name, absent if never saved or deleted
\* since.
C10_RegistryRoundTrip ==
    [][/\ out'.op = "save_model" =>
            LET a == out'.args
            IN  /\ load_model(models'[a.instance], a.name) = Some(a.model_info)
                /\ DOMAIN list_models(models'[a.instance])
                      = DOMAIN list_models(models[a.instance]) \cup {a.name}
                /\ OthersKept(a.instance, a.name)
       /\ out'.op = "delete_model" =>
            LET a == out'.args
            IN  /\ out'.raised = None
                /\ out'.ret = (load_model(models[a.instance], a.name) # None)
                /\ load_model(models'[a.instance], a.name) = None
                /\ DOMAIN list_models(models'[a.instance])
                      = DOMAIN list_models(models[a.instance]) \ {a.name}
                /\ OthersKept(a.instance, a.name)
                /\ ~out'.ret => models' = models /\ models_file' = models_file
       /\ out'.op = "load_model" =>
            LET a == out'.args
            IN  /\ models' = models
                /\ out'.ret = DictGet(list_models(models[a.instance]), a.name)
       /\ out'.op = "list_models" =>
            LET a == out'.args
            IN  /\ models' = models
                /\ DOMAIN out'.ret =
                      {n \in RegistryNames :
                          load_model(models[a.instance], n) # None}
                /\ \A n \in DOMAIN out'.ret :
                      Some(out'.ret[n]) = load_model(models[a.instance], n)
       /\ out'.op = "StorageManager" =>
            \A j \in DOMAIN models : models'[j] = models[j]
      ]_vars

\* a name saved twice, with different metadata, has just been loaded: the
\* registry holds both names, and the load returned the metadata differing
\* from the other name's
C10_Witness ==
    /\ out.op = "load_model"
    /\ out.ret # None
    /\ DOMAIN models[out.args.instance] = RegistryNames
    /\ \E n \in RegistryNames :
          models[out.args.instance][n] # out.ret[1]

\* the registry file holds text that is not JSON
FileInvalid == models_file # None /\ models_file[1].json = "invalid"

\* C11: constructing a Local Model Registry against a file of invalid JSON
\* raises nothing and yields an empty registry, leaving the file as it is;
\* the registry is usable (load_model finds nothing, list_models is empty),
\* and a save_model on it rewrites the file as valid JSON holding only the
\* saved entry.
C11_InvalidJsonGivesEmptyRegistry ==
    [][/\ (out'.op = "StorageManager" /\ FileInvalid) =>
            /\ out'.raised = None
            /\ Len(models') = Len(models) + 1
            /\ DOMAIN models'[out'.args.instance] = {}
            /\ models_file' = models_file
       /\ (out'.op = "load_model" /\ DOMAIN models[out'.args.instance] = {}) =>
            out'.raised = None /\ out'.ret = None
       /\ (out'.op = "list_models" /\ DOMAIN models[out'.args.instance] = {}) =>
            out'.raised = None /\ DOMAIN out'.ret = {}
       /\ (out'.op = "save_model" /\ FileInvalid
              /\ DOMAIN models[out'.args.instance] = {}) =>
            /\ out'.raised = None
            /\ models_file' # None
            /\ models_file'[1].json = "object"
            /\ DOMAIN load_models_registry(models_file') = {out'.args.name}
            /\ load_models_registry(models_file')[out'.args.name]
                  = out'.args.model_info
      ]_vars

\* a second registry has just been constructed against the damaged file,
\* after the first one had saved both names: it is empty
C11_Witness ==
    /\ out.op = "StorageManager"
    /\ out.args.instance = 2
    /\ FileInvalid
    /\ DOMAIN models[1] = RegistryNames
    /\ DOMAIN models[2] = {}

-----------------------------------------------------------------------------
(* SpecRequest: one generate_image call for every requested image count,   *)
(* step count, base model, adapter and reference list                      *)

MaxRequested == 5       \* largest image count and step count requested

\* the parameters of the generate_image calls
RequestedCalls ==
    {[prompt |-> PromptCat, base_model |-> bm, lora_url |-> lora,
      num_images |-> n, image_size |-> "landscape_16_9", steps |-> st,
      reference_images |-> refs] :
        bm \in {"flux-dev", "flux-schnell", "nano-banana"},
        lora \in {None, Some("lora-url")},
        n \in 1..MaxRequested,
        st \in (1..MaxRequested) \cup {FluxDevSteps},
        refs \in {<<>>, <<"ref.png">>}}

InitRequest ==
    /\ InitData
    /\ InitNoRegistry
    /\ \E a \in RequestedCalls : cmd = Frame("generate_image", a)

RequestNext ==
    \/ BuildRequest
    \/ Subscribe
    \/ LogSuccess
    \/ LogFailure
    \/ Reraise

SpecRequest == InitRequest /\ [][RequestNext]_vars

\* generate_image has built the arguments of the remote request
RequestBuilt == "num_images" \in DOMAIN cmd.arguments

\* C12: on the nano-banana path, with or without reference images, the
\* image count of the remote request is min(requested, 4), and the
\* adjustment note is printed if and only if the requested count exceeds 4.
C12_NanoBananaImageCountClamped ==
    (RequestBuilt /\ cmd.a.base_model = "nano-banana") =>
        /\ cmd.arguments.num_images =
              (IF cmd.a.num_images < 4 THEN cmd.a.num_images ELSE 4)
        /\ ("nano-banana max is 4 images" \in cmd.notes) <=> (cmd.a.num_images > 4)

\* five images are requested from nano-banana with a reference image: four
\* are asked of the service, and the note is printed
C12_Witness ==
    /\ cmd.pc = "subscribe"
    /\ cmd.a.base_model = "nano-banana"
    /\ cmd.a.reference_images # <<>>
    /\ cmd.a.num_images = 5
    /\ cmd.arguments.num_images = 4
    /\ "nano-banana max is 4 images" \in cmd.notes

\* C13: on the flux-schnell path the step count of the remote request is
\* min(requested, 4), and the adjustment note is printed if and only if the
\* requested count exceeds 4; on the flux-dev path the requested step count
\* is sent unchanged.
C13_SchnellStepsClamped ==
    /\ (RequestBuilt /\ cmd.a.base_model = "flux-schnell") =>
          /\ cmd.arguments.num_inference_steps =
                (IF cmd.a.steps < 4 THEN cmd.a.steps ELSE 4)
          /\ ("flux-schnell max is 4 steps" \in cmd.notes) <=> (cmd.a.steps > 4)
    /\ (RequestBuilt /\ cmd.a.base_model = "flux-dev") =>
          /\ cmd.arguments.num_inference_steps = cmd.a.steps
          /\ "flux-schnell max is 4 steps" \notin cmd.notes

\* 28 steps are requested of flux-schnell: 4 are sent, with the note
C13_Witness ==
    /\ cmd.pc = "subscribe"
    /\ cmd.a.base_model = "flux-schnell"
    /\ cmd.a.steps = 28
    /\ cmd.arguments.num_inference_steps = 4
    /\ "flux-schnell max is 4 steps" \in cmd.notes

\* C20: the history record written by generate_image stores the parameters
\* sent in the remote request: num_images is the image count sent; for
\* flux-dev and flux-schnell steps is the num_inference_steps sent and
\* image_size the size sent; for nano-banana steps and image_size are absent.
C20_RecordStoresSentParameters ==
    (cmd.pc \in {"returned", "generate_raised"} /\ RequestBuilt) =>
        \A r \in WrittenByCall :
            /\ r.num_images = cmd.arguments.num_images
            /\ IF cmd.a.base_model = "nano-banana"
               THEN r.steps = None /\ r.image_size = None
               ELSE /\ r.steps = Some(cmd.arguments.num_inference_steps)
                    /\ r.image_size = Some(cmd.arguments.image_size)

-----------------------------------------------------------------------------
(* Generation history browser (src/src/tui.py) *)

\* str.lower() of a string
str_lower(s) == [i \in DOMAIN s |-> Lower(s[i])]

\* how many characters of s agree with the window of t that starts at k
window_agreement(s, t, k) ==
    Cardinality({i \in 1..Len(s) : s[i] = t[k + i - 1]})

\* fuzz.partial_ratio(s1, s2) of the fuzzywuzzy library, which is not part
\* of the repository: the agreement, in percent, of the shorter string with
\* the window of the longer one that agrees best; 0 for an empty string
partial_ratio(s1, s2) ==
    LET shorter == IF Len(s1) <= Len(s2) THEN s1 ELSE s2
        longer == IF Len(s1) <= Len(s2) THEN s2 ELSE s1
        starts == 1..(Len(longer) - Len(shorter) + 1)
        best == CHOOSE b \in 0..Len(shorter) :
                    /\ \E k \in starts : window_agreement(shorter, longer, k) = b
                    /\ \A k \in starts : window_agreement(shorter, longer, k) <= b
    IN  IF Len(shorter) = 0 THEN 0 ELSE (100 * best) \div Len(shorter)

\* a threshold test that lets a score of 50 through
score_passes_from_50(score) == score >= 50

\* "if score > 50"
score_passes(score) == score > 50

\* matches.sort(key=lambda x: x[0], reverse=True): a stable sort, so matches
\* of equal score keep their order
RECURSIVE sort_by_score_desc(_)
sort_by_score_desc(matches) ==
    IF matches = <<>> THEN <<>>
    ELSE LET head == Head(matches)
             rest == sort_by_score_desc(Tail(matches))
             k == Cardinality({i \in DOMAIN rest : rest[i].score > head.score})
         IN  SubSeq(rest, 1, k) \o <<head>> \o SubSeq(rest, k + 1, Len(rest))

\* filtered_generations after filter_generations()
filter_generations(loaded, search_query) ==
    IF strip(search_query) = <<>> THEN loaded
    ELSE LET query == str_lower(strip(search_query))
             scored == [i \in DOMAIN loaded |->
                          [score |-> partial_ratio(query,
                                                   str_lower(loaded[i].prompt)),
                           gen |-> loaded[i]]]
             matches == SelectSeq(scored, LAMBDA x : score_passes(x.score))
             sorted == sort_by_score_desc(matches)
         IN  [i \in DOMAIN sorted |-> sorted[i].gen]

\* search_generations(limit=1000, success_only=False)
load_generations_query ==
    [prompt_search |-> None, base_model |-> None, finetuned_model |-> None,
     success_only |-> FALSE, limit |-> 1000, offset |-> 0]

\* a GenerationBrowser that has loaded the list loaded
Browser(loaded, search_query) ==
    [pc |-> "browser", generations |-> loaded, search_query |-> search_query,
     filtered_generations |-> filter_generations(loaded, search_query)]

-----------------------------------------------------------------------------
(* SpecBrowser: generations are logged and browsed *)

MaxBrowserRows == 3     \* generations logged

PromptCab == <<"c", "a", "b">>
PromptDog == <<"d", "o", "g">>
BrowserPrompts == {PromptCat, PromptCod, PromptCab, PromptDog}

\* what the user types into the search input
SearchInputs ==
    {<<" ">>, <<"c", "a">>, <<" ", "C", "A", "T">>, <<"c", "o", "d", " ">>}

\* some time later, a generation with the given prompt is logged
BrowserLog(prompt) ==
    /\ gen_seq < MaxBrowserRows
    /\ clock' = clock + 1
    /\ LET kw == [prompt |-> prompt, base_model |-> "flux-dev",
                  result |-> EmptyDict]
       IN  generations' = log_generation_insert(generations, gen_seq, kw, clock')
    /\ gen_seq' = gen_seq + 1
    /\ UNCHANGED <<out, sessVars, regVars, cmd>>

\* GenerationBrowser() and on_mount
OpenBrowser ==
    /\ cmd.pc = "idle"
    /\ \E loaded \in search_generations(generations, load_generations_query) :
          cmd' = Browser(loaded, <<>>)
    /\ UNCHANGED <<clock, generations, gen_seq, out, sessVars, regVars>>

\* on_search_changed
ChangeSearch(value) ==
    /\ cmd.pc = "browser"
    /\ cmd' = Browser(cmd.generations, value)
    /\ UNCHANGED <<clock, generations, gen_seq, out, sessVars, regVars>>

\* action_refresh
BrowserRefresh ==
    /\ cmd.pc = "browser"
    /\ \E loaded \in search_generations(generations, load_generations_query) :
          cmd' = Browser(loaded, cmd.search_query)
    /\ UNCHANGED <<clock, generations, gen_seq, out, sessVars, regVars>>

\* action_clear_search
ClearSearch ==
    /\ cmd.pc = "browser"
    /\ cmd' = Browser(cmd.generations, <<>>)
    /\ UNCHANGED <<clock, generations, gen_seq, out, sessVars, regVars>>

\* action_quit
QuitBrowser ==
    /\ cmd.pc = "browser"
    /\ cmd' = Idle
    /\ UNCHANGED <<clock, generations, gen_seq, out, sessVars, regVars>>

BrowserNext ==
    \/ \E prompt \in BrowserPrompts : BrowserLog(prompt)
    \/ OpenBrowser
    \/ \E value \in SearchInputs : ChangeSearch(value)
    \/ BrowserRefresh
    \/ ClearSearch
    \/ QuitBrowser

SpecBrowser == Init /\ [][BrowserNext]_vars

\* the score of a loaded record under the browser's query
BrowserScore(r) ==
    partial_ratio(str_lower(strip(cmd.search_query)), str_lower(r.prompt))

\* where a loaded record stands in the loaded list
LoadIndex(r) == CHOOSE i \in DOMAIN cmd.generations : cmd.generations[i] = r

\* C14: in the history browser, for a non-blank query the filtered list
\* holds exactly the loaded records whose partial-match score against the
\* lowercased prompt is above 50 (a score of 50 is left out), by descending
\* score, records of equal score in load order; for a blank query it is the
\* loaded list.
C14_FilteredByScoreAbove50 ==
    cmd.pc = "browser" =>
        LET f == cmd.filtered_generations
        IN  IF strip(cmd.search_query) = <<>>
            THEN f = cmd.generations
            ELSE /\ Range(f) = {r \in Range(cmd.generations) : BrowserScore(r) > 50}
                 /\ \A i, j \in DOMAIN f : i # j => f[i] # f[j]
                 /\ \A i, j \in DOMAIN f :
                       i < j =>
                          \/ BrowserScore(f[i]) > BrowserScore(f[j])
                          \/ /\ BrowserScore(f[i]) = BrowserScore(f[j])
                             /\ LoadIndex(f[i]) < LoadIndex(f[j])

\* three records are loaded and a query is typed: one record is left out,
\* and of the two shown the one loaded later scores higher and comes first
C14_Witness ==
    /\ cmd.pc = "browser"
    /\ strip(cmd.search_query) # <<>>
    /\ Len(cmd.generations) = 3
    /\ Len(cmd.filtered_generations) = 2
    /\ LoadIndex(cmd.filtered_generations[1]) > LoadIndex(cmd.filtered_generations[2])
    /\ BrowserScore(cmd.filtered_generations[1]) > BrowserScore(cmd.filtered_generations[2])

-----------------------------------------------------------------------------
(* Dependency-injection container (src/src/container.py).  An object is a  *)
(* position of the heap; a type is known by its __name__                   *)

\* inspect.signature of the constructors of the service classes; ServiceA
\* and ServiceB are two classes each with a parameter, None by default,
\* annotated with the other, and ServiceC has one annotated with ServiceA
ClassParams(cls) ==
    IF cls = "MockService"
    THEN <<[name |-> "name", annotation |-> Some("str"), required |-> FALSE]>>
    ELSE IF cls = "MockDependentService"
    THEN <<[name |-> "mock_service", annotation |-> Some("MockService"),
            required |-> TRUE]>>
    ELSE IF cls = "ServiceA"
    THEN <<[name |-> "b", annotation |-> Some("ServiceB"), required |-> FALSE]>>
    ELSE IF cls = "ServiceB"
    THEN <<[name |-> "a", annotation |-> Some("ServiceA"), required |-> FALSE]>>
    ELSE IF cls = "ServiceC"
    THEN <<[name |-> "a", annotation |-> Some("ServiceA"), required |-> FALSE]>>
    ELSE <<>>

\* the factories a service is registered with: the class itself, a function
\* annotated with its return type, a lambda
ClassFactory(cls) ==
    [name |-> cls, returns |-> None, params |-> ClassParams(cls), makes |-> cls]
FunctionFactory(cls) ==
    [name |-> "create_service", returns |-> Some(cls), params |-> <<>>,
     makes |-> cls]
LambdaFactory(cls) ==
    [name |-> "<lambda>", returns |-> None, params |-> <<>>, makes |-> cls]

\* "Extract constructor dependencies from type hints": the annotated
\* parameters, in order, each with the name of its annotation
register_dependencies(factory) ==
    LET annotated == SelectSeq(factory.params, LAMBDA p : p.annotation # None)
    IN  [i \in DOMAIN annotated |->
            [param |-> annotated[i].name, type |-> annotated[i].annotation[1]]]

\* self._services after register(service_type, factory, singleton)
register(services, service_name, factory, singleton) ==
    LET dependencies == register_dependencies(factory)
        descriptor == [factory |-> factory, singleton |-> singleton,
                       dependencies |-> IF dependencies = <<>> THEN None
                                        ELSE Some(dependencies)]
    IN  [n \in DOMAIN services \cup {service_name} |->
            IF n = service_name THEN descriptor ELSE services[n]]

\* _find_type_by_name: the type, when the registered factory is annotated
\* as returning it or bears its name
find_type_by_name(services, type_name) ==
    IF /\ type_name \in DOMAIN services
       /\ \/ services[type_name].factory.returns = Some(type_name)
          \/ services[type_name].factory.name = type_name
    THEN Some(type_name)
    ELSE None

\* descriptor.factory(**kwargs) raises TypeError: a parameter without a
\* default is not given
factory_raises(factory, kwargs) ==
    \E i \in DOMAIN factory.params :
        factory.params[i].required /\ factory.params[i].name \notin DOMAIN kwargs

\* the object descriptor.factory(**kwargs) makes: a parameter holds the
\* object given for it, or its default (None)
factory_object(factory, kwargs) ==
    [class |-> factory.makes,
     attrs |-> [p \in {factory.params[i].name : i \in DOMAIN factory.params} |->
                   DictGet(kwargs, p)]]

RecursionLimit == 3     \* depth of nested resolve calls Python allows

\* resolve(service_type) on the container st, and "Build dependencies" from
\* dependency i on; fuel is the depth of calls left.  Both give the
\* container afterwards and what was returned or raised
RECURSIVE resolve(_, _, _)
RECURSIVE resolve_dependencies(_, _, _, _, _)
resolve(st, service_name, fuel) ==
    IF service_name \in DOMAIN st.instances
    THEN [st |-> st, ret |-> Some(st.instances[service_name]), raised |-> None]
    ELSE IF service_name \notin DOMAIN st.services
    THEN [st |-> st, ret |-> None, raised |-> Some("ValueError")]
    ELSE IF fuel = 0
    THEN [st |-> st, ret |-> None, raised |-> Some("RecursionError")]
    ELSE LET descriptor == st.services[service_name]
             built == resolve_dependencies(st, OrElse(descriptor.dependencies, <<>>),
                                           1, EmptyDict, fuel - 1)
             oid == Len(built.st.heap) + 1
         IN  IF built.raised # None
             THEN [st |-> built.st, ret |-> None, raised |-> built.raised]
             ELSE IF factory_raises(descriptor.factory, built.kwargs)
             THEN [st |-> built.st, ret |-> None, raised |-> Some("TypeError")]
             ELSE [st |-> [services |-> built.st.services,
                           instances |->
                              IF descriptor.singleton
                              THEN [n \in DOMAIN built.st.instances \cup {service_name} |->
                                       IF n = service_name THEN oid
                                       ELSE built.st.instances[n]]
                              ELSE built.st.instances,
                           heap |-> Append(built.st.heap,
                                           factory_object(descriptor.factory,
                                                          built.kwargs))],
                   ret |-> Some(oid),
                   raised |-> None]

resolve_dependencies(st, dependencies, i, kwargs, fuel) ==
    IF i > Len(dependencies)
    THEN [st |-> st, kwargs |-> kwargs, raised |-> None]
    ELSE LET dep_type == find_type_by_name(st.services, dependencies[i].type)
         IN  IF dep_type = None
             THEN resolve_dependencies(st, dependencies, i + 1, kwargs, fuel)
             ELSE LET got == resolve(st, dep_type[1], fuel)
                  IN  IF got.raised # None
                      THEN [st |-> got.st, kwargs |-> kwargs, raised |-> got.raised]
                      ELSE resolve_dependencies(
                               got.st, dependencies, i + 1,
                               [p \in DOMAIN kwargs \cup {dependencies[i].param} |->
                                   IF p = dependencies[i].param THEN got.ret[1]
                                   ELSE kwargs[p]],
                               fuel)

-----------------------------------------------------------------------------
(* SpecContainer: services are registered with a Container and resolved *)

MaxObjects == 4         \* objects ever made

ServiceTypes == {"MockService", "MockDependentService"}

\* the registrations made: MockService by its class, a function or a
\* lambda, MockDependentService by its class
Registrations ==
    {[type |-> "MockService", factory |-> f, singleton |-> s] :
        f \in {ClassFactory("MockService"), FunctionFactory("MockService"),
               LambdaFactory("MockService")},
        s \in BOOLEAN}
    \cup
    {[type |-> "MockDependentService",
      factory |-> ClassFactory("MockDependentService"), singleton |-> s] :
        s \in BOOLEAN}

\* Container()
InitContainer ==
    /\ InitData
    /\ InitNoRegistry
    /\ cmd = [pc |-> "container", services |-> EmptyDict,
              instances |-> EmptyDict, heap |-> <<>>]

\* container.register(service_type, factory, singleton)
Register(r) ==
    /\ cmd.pc = "container"
    /\ cmd' = [cmd EXCEPT
                  !.services = register(cmd.services, r.type, r.factory, r.singleton)]
    /\ out' = Returned("register", r.type, None)
    /\ UNCHANGED <<clock, generations, gen_seq, sessVars, regVars>>

\* container.register_instance(service_type, service_type("instance"))
RegisterInstance(service_name) ==
    /\ cmd.pc = "container"
    /\ Len(cmd.heap) < MaxObjects
    /\ cmd' = [cmd EXCEPT
                  !.heap = Append(cmd.heap,
                                  factory_object(LambdaFactory(service_name),
                                                 EmptyDict)),
                  !.instances =
                      [n \in DOMAIN cmd.instances \cup {service_name} |->
                          IF n = service_name THEN Len(cmd.heap) + 1
                          ELSE cmd.instances[n]]]
    /\ out' = Returned("register_instance", service_name, None)
    /\ UNCHANGED <<clock, generations, gen_seq, sessVars, regVars>>

\* container.resolve(service_type)
Resolve(service_name) ==
    /\ cmd.pc = "container"
    /\ LET st == [services |-> cmd.services, instances |-> cmd.instances,
                  heap |-> cmd.heap]
           got == resolve(st, service_name, RecursionLimit)
       IN  /\ Len(got.st.heap) <= MaxObjects
           /\ cmd' = [cmd EXCEPT !.instances = got.st.instances,
                                 !.heap = got.st.heap]
           /\ out' = [op |-> "resolve", args |-> service_name, ret |-> got.ret,
                      raised |-> got.raised]
    /\ UNCHANGED <<clock, generations, gen_seq, sessVars, regVars>>

ContainerNext ==
    \/ \E r \in Registrations : Register(r)
    \/ RegisterInstance("MockService")
    \/ \E t \in ServiceTypes : Resolve(t)

SpecContainer == InitContainer /\ [][ContainerNext]_vars

\* C15: a service registered as singleton resolves to one and the same
\* instance on every resolve; and resolving a service registered by its
\* class, a constructor parameter of which is annotated with the type of a
\* service registered as singleton, yields an instance whose attribute is
\* that singleton, the object a resolve of the dependency returns.
C15_SingletonInjected ==
    [][(out'.op = "resolve" /\ out'.args \in DOMAIN cmd.services) =>
          LET name == out'.args
              descriptor == cmd.services[name]
          IN  /\ (descriptor.singleton /\ out'.raised = None) =>
                    /\ cmd'.instances[name] = out'.ret[1]
                    /\ name \in DOMAIN cmd.instances =>
                          out'.ret[1] = cmd.instances[name]
              /\ \A i \in DOMAIN ClassParams(name) :
                    LET p == ClassParams(name)[i]
                    IN  (/\ descriptor.factory = ClassFactory(name)
                         /\ name \notin DOMAIN cmd.instances
                         /\ p.annotation # None
                         /\ p.annotation[1] \in DOMAIN cmd.services
                         /\ cmd.services[p.annotation[1]].singleton) =>
                            /\ out'.raised = None
                            /\ p.annotation[1] \in DOMAIN cmd'.instances
                            /\ cmd'.heap[out'.ret[1]].attrs[p.name]
                                  = Some(cmd'.instances[p.annotation[1]])
      ]_vars

-----------------------------------------------------------------------------
(* Service locator (src/src/services.py).  The process holds the module's  *)
(* _services and _initialized, the objects constructed so far (an object   *)
(* is a position of the heap, which gives its class), the FAL_KEY of the   *)
(* environment and the names of the providers of the global registry       *)

\* _services after register_service(service_type, instance)
register_service(services, service_name, instance) ==
    [n \in DOMAIN services \cup {service_name} |->
        IF n = service_name THEN instance ELSE services[n]]

\* get_service(service_type): the instance, or ValueError
get_service(services, service_name) ==
    IF service_name \notin DOMAIN services
    THEN [ret |-> None, raised |-> Some("ValueError")]
    ELSE [ret |-> Some(services[service_name]), raised |-> None]

\* clear_services()
clear_services(st) ==
    [st EXCEPT !.services = EmptyDict, !.initialized = FALSE]

\* a mutant of initialize_services: the flag is not looked at
initialize_services_always(st) ==
    LET config == Len(st.heap) + 1
        has_key == Truthy(st.fal_key, "")
        constructed == <<"Config", "StorageManager", "DatabaseManager", "ImagePreview">>
                       \o (IF has_key THEN <<"FALWrapper", "FALProvider">> ELSE <<>>)
        core == register_service(
                    register_service(
                        register_service(
                            register_service(st.services, "Config", config),
                            "StorageManager", config + 1),
                        "DatabaseManager", config + 2),
                    "ImagePreview", config + 3)
    IN  [st EXCEPT
            !.heap = st.heap \o constructed,
            !.providers = IF has_key THEN st.providers \cup {"fal"} ELSE st.providers,
            !.services = IF has_key THEN register_service(core, "FALWrapper", config + 4)
                         ELSE core,
            !.initialized = TRUE]

\* initialize_services(): nothing when already initialized; otherwise
\* Config, StorageManager, DatabaseManager and ImagePreview are constructed
\* and registered, FALWrapper too unless it raises ValueError for want of a
\* key, a FALProvider is registered with the provider registry when the
\* key is a non-empty string, and the flag is set
initialize_services(st) ==
    IF st.initialized
    THEN st
    ELSE LET config == Len(st.heap) + 1
             has_key == Truthy(st.fal_key, "")
             constructed == <<"Config", "StorageManager", "DatabaseManager", "ImagePreview">>
                            \o (IF has_key THEN <<"FALWrapper", "FALProvider">> ELSE <<>>)
             core == register_service(
                         register_service(
                             register_service(
                                 register_service(st.services, "Config", config),
                                 "StorageManager", config + 1),
                             "DatabaseManager", config + 2),
                         "ImagePreview", config + 3)
         IN  [st EXCEPT
                 !.heap = st.heap \o constructed,
                 !.providers = IF has_key THEN st.providers \cup {"fal"}
                               ELSE st.providers,
                 !.services = IF has_key
                              THEN register_service(core, "FALWrapper", config + 4)
                              ELSE core,
                 !.initialized = TRUE]

\* is_initialized()
is_initialized(st) == st.initialized

-----------------------------------------------------------------------------
(* SpecServices: a process initializes, clears and queries the services *)

MaxConstructed == 13    \* objects ever constructed

ServiceNames ==
    {"Config", "StorageManager", "DatabaseManager", "ImagePreview", "FALWrapper"}

FalKeys == {None, Some(""), Some("key")}

InitServices ==
    /\ InitData
    /\ InitNoRegistry
    /\ \E k \in FalKeys :
          cmd = [pc |-> "services", services |-> EmptyDict, initialized |-> FALSE,
                 heap |-> <<>>, fal_key |-> k, providers |-> {}]

\* initialize_services(); a StorageManager that is constructed loads the
\* model registry
InitializeServices ==
    /\ cmd.pc = "services"
    /\ Len(initialize_services(cmd).heap) <= MaxConstructed
    /\ cmd' = initialize_services(cmd)
    /\ models' = IF Len(cmd'.heap) > Len(cmd.heap)
                 THEN Append(models, load_models_registry(models_file))
                 ELSE models
    /\ out' = Returned("initialize_services", None, None)
    /\ UNCHANGED <<clock, generations, gen_seq, sessVars, models_file>>

\* clear_services()
ClearServices ==
    /\ cmd.pc = "services"
    /\ cmd' = clear_services(cmd)
    /\ out' = Returned("clear_services", None, None)
    /\ UNCHANGED <<clock, generations, gen_seq, sessVars, regVars>>

\* is_initialized()
IsInitialized ==
    /\ cmd.pc = "services"
    /\ out' = Returned("is_initialized", None, is_initialized(cmd))
    /\ UNCHANGED <<clock, generations, gen_seq, sessVars, regVars, cmd>>

\* get_service(service_type)
GetService(service_name) ==
    /\ cmd.pc = "services"
    /\ out' = [op |-> "get_service", args |-> service_name,
               ret |-> get_service(cmd.services, service_name).ret,
               raised |-> get_service(cmd.services, service_name).raised]
    /\ UNCHANGED <<clock, generations, gen_seq, sessVars, regVars, cmd>>

\* register_service(service_type, Mock())
RegisterService(service_name) ==
    /\ cmd.pc = "services"
    /\ Len(cmd.heap) < MaxConstructed
    /\ cmd' = [cmd EXCEPT
                  !.heap = Append(cmd.heap, "Mock"),
                  !.services = register_service(cmd.services, service_name,
                                                Len(cmd.heap) + 1)]
    /\ out' = Returned("register_service", service_name, None)
    /\ UNCHANGED <<clock, generations, gen_seq, sessVars, regVars>>

\* config set-key: os.environ['FAL_KEY'] = api_key
SetFalKey ==
    /\ cmd.pc = "services"
    /\ cmd.fal_key # Some("key")
    /\ cmd' = [cmd EXCEPT !.fal_key = Some("key")]
    /\ out' = Returned("set_fal_key", "key", None)
    /\ UNCHANGED <<clock, generations, gen_seq, sessVars, regVars>>

ServicesNext ==
    \/ InitializeServices
    \/ ClearServices
    \/ IsInitialized
    \/ \E n \in ServiceNames : GetService(n)
    \/ RegisterService("FALWrapper")
    \/ SetFalKey

SpecServices == InitServices /\ [][ServicesNext]_vars

\* C16: a call of initialize_services made while the flag is set constructs
\* no object and leaves the service registry unchanged, and only
\* clear_services resets the flag, so that between two clear_services calls
\* objects are constructed by the first initialize call only;
\* is_initialized is true after every initialize call and false after every
\* clear_services call, after which get_service fails for every type.
C16_InitializeIdempotent ==
    [][/\ (out'.op = "initialize_services" /\ cmd.initialized) =>
              /\ cmd'.heap = cmd.heap
              /\ cmd'.services = cmd.services
       /\ (out'.op = "initialize_services" /\ ~cmd.initialized) =>
              Len(cmd'.heap) > Len(cmd.heap)
       /\ out'.op = "initialize_services" => is_initialized(cmd')
       /\ (cmd.initialized /\ ~cmd'.initialized) => out'.op = "clear_services"
       /\ out'.op = "clear_services" =>
              /\ ~is_initialized(cmd')
              /\ \A n \in ServiceNames :
                    get_service(cmd'.services, n).raised = Some("ValueError")
       /\ (out'.op = "is_initialized" /\ out.op = "initialize_services") =>
              out'.ret = TRUE
       /\ (out'.op = "is_initialized" /\ out.op = "clear_services") =>
              out'.ret = FALSE
       /\ (out'.op = "get_service" /\ out.op = "clear_services") =>
              out'.raised = Some("ValueError")
      ]_vars

\* is_initialized answers TRUE once the services have been initialized
C16_Witness ==
    /\ out.op = "is_initialized"
    /\ out.ret = TRUE
    /\ cmd.pc = "services"
    /\ cmd.initialized
    /\ Len(cmd.heap) \in {4, 6}

-----------------------------------------------------------------------------
(* The command line (src/src/cli.py): main, then a command that requires  *)
(* the API client                                                          *)

\* what require_fal_client echoes when there is no client
RequireFalLines ==
    <<"Error: FAL_KEY is required for this command.",
      "Set your API key with: nano-banana config set-key <your-key>">>

\* a require_fal_client that returns ctx.obj['fal'] whatever it is
require_fal_client_returns(fal) ==
    [echo |-> <<>>, exit |-> None]

\* require_fal_client(ctx): without a client two lines are echoed and
\* ctx.exit(1) ends the command; otherwise the client is returned
require_fal_client(fal) ==
    IF ~fal
    THEN [echo |-> RequireFalLines, exit |-> Some(1)]
    ELSE [echo |-> <<>>, exit |-> None]

\* the process of a command line before main runs
Cli(command, fal_key) ==
    [pc |-> "main", command |-> command, fal_key |-> fal_key, fal |-> FALSE,
     echo |-> <<>>, exit_code |-> None, remote |-> FALSE, downloaded |-> FALSE]

\* the process after ctx.exit(code)
exited(process, echo, code) ==
    [process EXCEPT !.pc = "exited", !.echo = process.echo \o echo,
                    !.exit_code = Some(code)]

\* the entry the fine-tune command saves
fine_tune_model_info(name, lora_url, trigger_word, created_at) ==
    [name |-> name, lora_url |-> lora_url, trigger_word |-> trigger_word,
     created_at |-> created_at, training_images |-> 15]

-----------------------------------------------------------------------------
(* SpecCli: one run of fine-tune, generate or inpaint, with and without a *)
(* key                                                                     *)

ClientCommands == {"fine-tune", "generate", "inpaint"}

InitCli ==
    /\ InitData
    /\ models = <<>>
    /\ models_file = Some(json_dump(FaceRegistry))
    /\ \E c \in ClientCommands, k \in FalKeys : cmd = Cli(c, k)

\* main: Config, StorageManager and DatabaseManager are constructed, and a
\* FALWrapper if config.fal_key is set
Main ==
    /\ cmd.pc = "main"
    /\ cmd' = [cmd EXCEPT !.pc = "command", !.fal = Truthy(cmd.fal_key, "")]
    /\ models' = Append(models, load_models_registry(models_file))
    /\ UNCHANGED <<clock, generations, gen_seq, out, sessVars, models_file>>

FineTuneOutcomes == {"no images", "declined", "trained", "no lora_url", "raised"}

\* the fine-tune command
RunFineTune(outcome) ==
    /\ cmd.pc = "command"
    /\ cmd.command = "fine-tune"
    /\ LET required == require_fal_client(cmd.fal)
           model_info == fine_tune_model_info("default", "lora-new", "NANO", clock)
       IN  IF required.exit # None
           THEN /\ cmd' = exited(cmd, required.echo, required.exit[1])
                /\ UNCHANGED regVars
           ELSE /\ cmd' = [exited(cmd, <<outcome>>, 0) EXCEPT
                              !.remote = outcome \in {"trained", "no lora_url", "raised"}]
                /\ IF outcome = "trained"
                   THEN /\ models' = [models EXCEPT
                                         ![1] = save_model(models[1], "default", model_info)]
                        /\ models_file' =
                              Some(json_dump(save_model(models[1], "default", model_info)))
                   ELSE UNCHANGED regVars
    /\ UNCHANGED <<clock, generations, gen_seq, out, sessVars>>

InpaintOutcomes == {"saved", "no url", "failed", "raised"}

\* the inpaint command
RunInpaint(outcome) ==
    /\ cmd.pc = "command"
    /\ cmd.command = "inpaint"
    /\ LET required == require_fal_client(cmd.fal)
       IN  IF required.exit # None
           THEN cmd' = exited(cmd, required.echo, required.exit[1])
           ELSE cmd' = [exited(cmd, <<outcome>>, 0) EXCEPT
                           !.remote = TRUE,
                           !.downloaded = (outcome = "saved")]
    /\ UNCHANGED <<clock, generations, gen_seq, out, sessVars, regVars>>

\* the generate command, up to the call of generate_image
RunGenerate(inv) ==
    /\ cmd.pc = "command"
    /\ cmd.command = "generate"
    /\ LET required == require_fal_client(cmd.fal)
       IN  IF required.exit # None
           THEN cmd' = exited(cmd, required.echo, required.exit[1])
           ELSE cmd' = [Frame("generate_image", generate_call(inv, models[1]))
                           EXCEPT !.model_name = generate_model_name(inv, models[1])]
    /\ UNCHANGED <<clock, generations, gen_seq, out, sessVars, regVars>>

CliNext ==
    \/ Main
    \/ \E outcome \in FineTuneOutcomes : RunFineTune(outcome)
    \/ \E outcome \in InpaintOutcomes : RunInpaint(outcome)
    \/ \E inv \in Invocations : RunGenerate(inv)
    \/ BuildRequest
    \/ Subscribe
    \/ LogSuccess
    \/ LogFailure
    \/ Reraise
    \/ InspectResult
    \/ SaveImage
    \/ Backfill
    \/ HandleException
    \/ Exit

SpecCli == InitCli /\ [][CliNext]_vars

\* C17: when no API key is resolvable at startup, main makes no client and
\* changes neither the registry file nor the history records, and each of
\* fine-tune, generate and inpaint echoes the two-line instruction and
\* exits with status 1 as its only step: no remote call is made, nothing
\* is downloaded, the model registry and the history database are left as
\* they were, and nothing runs after the exit.
C17_NoKeyExitsBeforeAnything ==
    [][/\ (cmd.pc = "main" /\ ~Truthy(cmd.fal_key, "")) =>
              /\ ~cmd'.fal
              /\ models_file' = models_file
              /\ generations' = generations
       /\ (cmd.pc = "command" /\ ~cmd.fal) =>
              /\ cmd'.pc = "exited"
              /\ cmd'.exit_code = Some(1)
              /\ cmd'.echo = RequireFalLines
              /\ ~cmd'.remote
              /\ ~cmd'.downloaded
              /\ models_file' = models_file
              /\ models' = models
              /\ generations' = generations
       /\ cmd.pc # "exited"
      ]_vars

\* the inpaint command has exited with status 1 for want of a key
C17_Witness ==
    /\ cmd.pc = "exited"
    /\ cmd.command = "inpaint"
    /\ ~cmd.fal
    /\ cmd.exit_code = Some(1)

-----------------------------------------------------------------------------
(* Provider registry (src/src/providers/base.py, fal_provider.py).  Texts *)
(* built with f-strings are records of their fixed part and their values  *)

\* FALProvider.get_available_models(): names and max_images
FalModels ==
    <<[name |-> "flux-dev", max_images |-> 4],
      [name |-> "flux-schnell", max_images |-> 4],
      [name |-> "nano-banana", max_images |-> 4]>>

\* FALProvider(api_key=api_key)
FALProvider(api_key) ==
    [name |-> "fal", api_key |-> api_key, client |-> FALSE, models |-> FalModels]

\* FALProvider.initialize(): False without an api key, otherwise the client
\* is set
provider_initialize(provider) ==
    IF ~Truthy(provider.api_key, "") THEN [ret |-> FALSE, provider |-> provider]
    ELSE [ret |-> TRUE, provider |-> [provider EXCEPT !.client = TRUE]]

\* get_model_info: the first model of that name, or None
get_model_info(provider, model_name) ==
    LET found == SelectSeq(provider.models, LAMBDA mi : mi.name = model_name)
    IN  IF found = <<>> THEN None ELSE Some(found[1])

ErrorText(msg, model, max) == [msg |-> msg, model |-> model, max |-> max]

\* a validate_request that does not compare the count with max_images
validate_request_without_max(provider, request) ==
    LET model_info == get_model_info(provider, request.model_name)
    IN  (IF strip(request.prompt) = <<>>
         THEN <<ErrorText("Prompt cannot be empty", "", 0)>> ELSE <<>>)
        \o (IF request.num_images < 1
            THEN <<ErrorText("Number of images must be at least 1", "", 0)>>
            ELSE <<>>)
        \o (IF model_info = None
            THEN <<ErrorText("Model not found", request.model_name, 0)>>
            ELSE <<>>)

\* BaseProvider.validate_request: the errors found, in order
validate_request(provider, request) ==
    LET model_info == get_model_info(provider, request.model_name)
    IN  (IF strip(request.prompt) = <<>>
         THEN <<ErrorText("Prompt cannot be empty", "", 0)>> ELSE <<>>)
        \o (IF request.num_images < 1
            THEN <<ErrorText("Number of images must be at least 1", "", 0)>>
            ELSE <<>>)
        \o (IF model_info = None
            THEN <<ErrorText("Model not found", request.model_name, 0)>>
            ELSE IF request.num_images > model_info[1].max_images
            THEN <<ErrorText("Model supports max images", request.model_name,
                             model_info[1].max_images)>>
            ELSE <<>>)

\* sep.join(list)
RECURSIVE join(_, _)
join(sep, list) ==
    IF Len(list) <= 1 THEN list
    ELSE <<Head(list), sep>> \o join(sep, Tail(list))

Semicolon == ErrorText("; ", "", 0)

\* GenerationResult(success=False, images=[], metadata={}, error_message=...)
FailureResult(prefix, detail) ==
    [success |-> FALSE, images |-> <<>>,
     error_message |-> [prefix |-> prefix, detail |-> detail],
     backend |-> None]

\* register_provider: an initialized provider is stored under its name and
\* each of its models is mapped to that name
register_provider(registry, provider) ==
    LET init == provider_initialize(provider)
    IN  IF ~init.ret THEN [ret |-> FALSE, registry |-> registry]
        ELSE [ret |-> TRUE,
              registry |->
                [registry EXCEPT
                    !.providers =
                        [n \in DOMAIN registry.providers \cup {provider.name} |->
                            IF n = provider.name THEN init.provider
                            ELSE registry.providers[n]],
                    !.model_to_provider =
                        [mn \in DOMAIN registry.model_to_provider
                                \cup {provider.models[i].name : i \in DOMAIN provider.models} |->
                            IF \E i \in DOMAIN provider.models : provider.models[i].name = mn
                            THEN provider.name
                            ELSE registry.model_to_provider[mn]]]]

\* get_provider_for_model
get_provider_for_model(registry, model_name) ==
    LET provider_name == DictGet(registry.model_to_provider, model_name)
    IN  IF provider_name = None THEN None
        ELSE DictGet(registry.providers, provider_name[1])

\* FALProvider.generate_image: the request sent to the service and the
\* result made of its answer, or of the exception caught
provider_generate_image(provider, request, answer) ==
    IF ~provider.client
    THEN FailureResult("FAL client not initialized", <<>>)
    ELSE [success |-> answer = "images",
          images |-> IF answer = "images"
                     THEN [i \in 1..request.num_images |-> [url |-> "u", path |-> ""]]
                     ELSE <<>>,
          error_message |-> IF answer = "images" THEN [prefix |-> "", detail |-> <<>>]
                            ELSE [prefix |-> "raised", detail |-> <<>>],
          backend |-> Some([provider |-> provider.name, model |-> request.model_name,
                            prompt |-> request.prompt,
                            num_images |-> request.num_images])]

\* ProviderRegistry.generate_image
registry_generate_image(registry, request, answer) ==
    LET provider == get_provider_for_model(registry, request.model_name)
    IN  IF provider = None
        THEN FailureResult("No provider found for model",
                           <<ErrorText("", request.model_name, 0)>>)
        ELSE LET errors == validate_request(provider[1], request)
             IN  IF errors # <<>>
                 THEN FailureResult("Validation errors", join(Semicolon, errors))
                 ELSE provider_generate_image(provider[1], request, answer)

-----------------------------------------------------------------------------
(* SpecProviders: providers are registered and requests are made *)

MaxAsked == 5       \* num_images of a request

GenerationRequests ==
    {[prompt |-> p, model_name |-> mn, num_images |-> n] :
        p \in {<<>>, <<" ", " ">>, PromptCat},
        mn \in {"flux-dev", "flux-schnell", "nano-banana", "sdxl"},
        n \in 0..MaxAsked}

InitProviders ==
    /\ InitData
    /\ InitNoRegistry
    /\ cmd = [pc |-> "providers", providers |-> EmptyDict,
              model_to_provider |-> EmptyDict]

\* registry.register_provider(FALProvider(api_key=api_key))
RegisterProvider(api_key) ==
    /\ cmd.pc = "providers"
    /\ cmd' = register_provider(cmd, FALProvider(api_key)).registry
    /\ out' = Returned("register_provider", api_key,
                       register_provider(cmd, FALProvider(api_key)).ret)
    /\ UNCHANGED <<clock, generations, gen_seq, sessVars, regVars>>

\* registry.generate_image(request); the service answers with images or the
\* call to it raises
RegistryGenerateImage(request, answer) ==
    /\ cmd.pc = "providers"
    /\ out' = Returned("generate_image", request,
                       registry_generate_image(cmd, request, answer))
    /\ UNCHANGED <<clock, generations, gen_seq, sessVars, regVars, cmd>>

ProvidersNext ==
    \/ \E k \in FalKeys : RegisterProvider(k)
    \/ \E r \in GenerationRequests, answer \in {"images", "raised"} :
          RegistryGenerateImage(r, answer)

SpecProviders == InitProviders /\ [][ProvidersNext]_vars

\* the model's max_images as the registered provider of the model gives it
ResolvedMaxImages(request) ==
    LET provider == cmd.providers[cmd.model_to_provider[request.model_name]]
        named == {i \in DOMAIN provider.models :
                     provider.models[i].name = request.model_name}
    IN  provider.models[CHOOSE i \in named : TRUE].max_images

\* C18: generate_image of the registry reaches a backend only when the
\* model name maps to a registered provider and the request has a
\* non-blank prompt and a count from 1 to the model's max_images;
\* otherwise the result is a failure without images and no backend is
\* reached, the message naming the unknown model, or listing every
\* validation error in order with "; " between them.
C18_RegistryValidatesBeforeDelegating ==
    out.op = "generate_image" =>
        LET request == out.args
            result == out.ret
            known == /\ request.model_name \in DOMAIN cmd.model_to_provider
                     /\ cmd.model_to_provider[request.model_name] \in DOMAIN cmd.providers
            blank == \A i \in DOMAIN request.prompt : request.prompt[i] = " "
            valid == /\ ~blank
                     /\ request.num_images >= 1
                     /\ request.num_images <= ResolvedMaxImages(request)
            expected ==
                (IF blank THEN <<ErrorText("Prompt cannot be empty", "", 0)>> ELSE <<>>)
                \o (IF request.num_images < 1
                    THEN <<Semicolon, ErrorText("Number of images must be at least 1", "", 0)>>
                    ELSE <<>>)
                \o (IF request.num_images > ResolvedMaxImages(request)
                    THEN <<Semicolon, ErrorText("Model supports max images",
                                                request.model_name,
                                                ResolvedMaxImages(request))>>
                    ELSE <<>>)
        IN  /\ result.backend # None <=> (known /\ valid)
            /\ result.backend # None =>
                  /\ result.backend[1].prompt = request.prompt
                  /\ result.backend[1].num_images = request.num_images
                  /\ result.backend[1].provider = cmd.model_to_provider[request.model_name]
            /\ ~known =>
                  /\ ~result.success
                  /\ result.images = <<>>
                  /\ result.error_message =
                        [prefix |-> "No provider found for model",
                         detail |-> <<ErrorText("", request.model_name, 0)>>]
            /\ (known /\ ~valid) =>
                  /\ ~result.success
                  /\ result.images = <<>>
                  /\ result.error_message.prefix = "Validation errors"
                  /\ result.error_message.detail =
                        IF Head(expected) = Semicolon THEN Tail(expected) ELSE expected

\* a request for as many images as the model allows has reached the backend
C18_Witness ==
    /\ out.op = "generate_image"
    /\ "fal" \in DOMAIN cmd.providers
    /\ out.ret.backend # None
    /\ out.args.num_images = 4

-----------------------------------------------------------------------------
(* run_session_editor (src/src/session_editor_ui.py): the driver shows the *)
(* selector, then the editor of the session it yields                      *)

\* the driver while the selector runs, with the last values of its locals
Driver(pc, session_id, result) ==
    [pc |-> pc, session_id |-> session_id, result |-> result]

\* a driver that shows the selector again whatever the editor returned
after_editor_loops(result) == "selector"

\* "if result != 'switch': break": where the driver goes after editor.run()
after_editor(result) ==
    IF result # Some("switch") THEN "ended" ELSE "selector"

\* "if session_id is None: break": where it goes after selector.run()
after_selector(session_id) ==
    IF session_id = None THEN "ended" ELSE "editor"

-----------------------------------------------------------------------------
(* SpecDriver: a user works through selector and editor screens *)

InitDriver ==
    /\ InitData
    /\ InitNoRegistry
    /\ cmd = Driver("selector", None, None)

\* selector.run() returns session_id; an editor is made and mounted for it
SelectorReturns(session_id) ==
    /\ cmd' = Driver(after_selector(session_id), session_id, cmd.result)
    /\ IF after_selector(session_id) = "editor"
       THEN \E list \in get_session_steps(session_steps, session_id[1]) :
               LET loaded == load_session_data(NewEditor(session_id[1]), sessions',
                                               session_steps, list)
               IN  /\ editors' = PutEditor(1,
                         IF list # <<>>
                         THEN [loaded EXCEPT !.selected_step = Some(list[Len(list)])]
                         ELSE loaded)
                   /\ out' = Returned("get_session_steps", session_id[1], list)
       ELSE UNCHANGED <<editors, out>>

\* the user starts a new session from an image that exists
SelectorNewSession ==
    /\ cmd.pc = "selector"
    /\ sess_seq < MaxSessions
    /\ sessions' = create_session(sessions, sess_seq,
                                  <<"Session", Cardinality(sessions) + 1>>,
                                  InitialImagePath, "", clock)
    /\ sess_seq' = sess_seq + 1
    /\ SelectorReturns(Some(sess_seq + 1))
    /\ UNCHANGED <<clock, generations, gen_seq, session_steps, step_seq, regVars>>

\* the user picks a session of the list
SelectorSelect(session_id) ==
    /\ cmd.pc = "selector"
    /\ \E s \in sessions : s.id = session_id
    /\ sessions' = sessions
    /\ SelectorReturns(Some(session_id))
    /\ UNCHANGED <<clock, generations, gen_seq, session_steps, sess_seq,
                   step_seq, regVars>>

\* the user quits the selector
SelectorQuit ==
    /\ cmd.pc = "selector"
    /\ sessions' = sessions
    /\ SelectorReturns(None)
    /\ UNCHANGED <<clock, generations, gen_seq, session_steps, sess_seq,
                   step_seq, regVars>>

\* what editor.run() returns: action_switch_session, action_quit
EditorResults == {Some("switch"), None}

\* editor.run() returns result
EditorReturns(result) ==
    /\ cmd.pc = "editor"
    /\ editors' = [editors EXCEPT ![1] = ClosedEditor]
    /\ cmd' = Driver(after_editor(result), cmd.session_id, result)
    /\ out' = Returned("editor.run", cmd.session_id, result)
    /\ UNCHANGED <<clock, generations, gen_seq, sessions, session_steps,
                   sess_seq, step_seq, regVars>>

DriverNext ==
    \/ SelectorNewSession
    \/ \E id \in 1..MaxSessions : SelectorSelect(id)
    \/ SelectorQuit
    \/ \E k \in 1..(MaxSteps + 1) : SelectStep(1, k)
    \/ \E value \in SubmittedValues : SubmitEdit(1, value)
    \/ Refresh(1)
    \/ \E result \in EditorResults : EditorReturns(result)

SpecDriver == InitDriver /\ [][DriverNext]_vars

\* an editor runs
EditorRunning == editors # <<>> /\ editors[1].running

\* C19: an editor starts only when the selector has yielded a session
\* identifier, and for that identifier; the driver goes back to the
\* selector if and only if the editor returned "switch"; it ends if and
\* only if the selector yielded no session or the editor returned anything
\* but "switch"; and once ended it shows nothing more.
C19_DriverAlternates ==
    [][/\ (cmd'.pc = "editor" /\ cmd.pc # "editor") =>
              /\ cmd.pc = "selector"
              /\ cmd'.session_id # None
              /\ EditorRunning'
              /\ editors'[1].session_id = cmd'.session_id[1]
       /\ (EditorRunning' /\ ~EditorRunning) => (cmd'.pc = "editor" /\ cmd.pc = "selector")
       /\ (cmd.pc = "editor" /\ cmd'.pc = "editor") =>
              /\ EditorRunning'
              /\ editors'[1].session_id = cmd.session_id[1]
       /\ (cmd'.pc = "selector" /\ cmd.pc # "selector")
              <=> (cmd.pc = "editor" /\ ~EditorRunning' /\ cmd'.result = Some("switch"))
       /\ (cmd'.pc = "ended" /\ cmd.pc # "ended")
              <=> \/ cmd.pc = "selector" /\ cmd' # cmd /\ cmd'.session_id = None
                  \/ /\ cmd.pc = "editor"
                     /\ ~EditorRunning'
                     /\ cmd'.result # Some("switch")
       /\ cmd.pc = "ended" => FALSE
      ]_vars

\* the selector is shown again after an editor returned "switch"
C19_Witness ==
    /\ cmd.pc = "selector"
    /\ cmd.result = Some("switch")
    /\ cmd.session_id # None
    /\ ~EditorRunning

-----------------------------------------------------------------------------
(* SpecHandles: two History Database handles (two processes) work on the   *)
(* session tables.  add_session_step reads the clock, then runs its        *)
(* transaction (UPDATE sessions, INSERT INTO session_steps); each call is  *)
(* held in the process state between the two                               *)

MaxHandleClock == 2     \* the clock of this specification

Handles == {1, 2}

\* a step a caller adds: a failed edit
HandleStep(session_id, step_number) ==
    [session_id |-> session_id, step_number |-> step_number,
     prompt |-> PromptCod, image_path |-> <<>>, success |-> FALSE,
     error_message |-> Some("service error"), generation_time |-> Some(1)]

InitHandles ==
    /\ InitData
    /\ InitNoRegistry
    /\ cmd = [pc |-> "handles", calls |-> [h \in Handles |-> None]]

\* time passes
HandlesTick ==
    /\ cmd.pc = "handles"
    /\ clock < MaxHandleClock
    /\ clock' = clock + 1
    /\ UNCHANGED <<generations, gen_seq, out, sessVars, regVars, cmd>>

\* db.create_session(name, initial_image_path) through handle h
HandleCreateSession(h) ==
    /\ cmd.pc = "handles"
    /\ cmd.calls[h] = None
    /\ sess_seq < MaxSessions
    /\ sessions' = create_session(sessions, sess_seq, "Session 1",
                                  InitialImagePath, "", clock)
    /\ sess_seq' = sess_seq + 1
    /\ out' = Returned("create_session", [handle |-> h], sess_seq + 1)
    /\ UNCHANGED <<clock, generations, gen_seq, session_steps, step_seq,
                   editors, regVars, cmd>>

\* add_session_step(session_id, step_number, ...) through handle h, up to
\* "timestamp = datetime.now().isoformat()"
HandleBeginAddStep(h, session_id) ==
    /\ cmd.pc = "handles"
    /\ cmd.calls[h] = None
    /\ step_seq + Cardinality({g \in Handles : cmd.calls[g] # None}) < MaxSteps
    /\ cmd' = [cmd EXCEPT
                  !.calls[h] =
                      Some([step |-> HandleStep(session_id,
                                        Cardinality(steps_of(session_steps,
                                                             session_id)) + 1),
                            timestamp |-> clock])]
    /\ out' = Returned("datetime.now", [handle |-> h], clock)
    /\ UNCHANGED <<clock, generations, gen_seq, sessVars, regVars>>

\* the transaction of the add_session_step call of handle h
HandleCommitAddStep(h) ==
    /\ cmd.pc = "handles"
    /\ cmd.calls[h] # None
    /\ LET call == cmd.calls[h][1]
       IN  /\ sessions' = add_session_step_update(sessions, call.step.session_id,
                                                  call.timestamp)
           /\ session_steps' = add_session_step_insert(session_steps, step_seq,
                                                       call.step, call.timestamp)
           /\ out' = Returned("add_session_step",
                              [handle |-> h, session_id |-> call.step.session_id],
                              step_seq + 1)
    /\ step_seq' = step_seq + 1
    /\ cmd' = [cmd EXCEPT !.calls[h] = None]
    /\ UNCHANGED <<clock, generations, gen_seq, sess_seq, editors, regVars>>

\* db.delete_session(session_id) through handle h
HandleDeleteSession(h, session_id) ==
    /\ cmd.pc = "handles"
    /\ cmd.calls[h] = None
    /\ session_steps' = delete_session_steps(session_steps, session_id)
    /\ sessions' = delete_session_rows(sessions, session_id)
    /\ out' = Returned("delete_session", [handle |-> h, session_id |-> session_id],
                       delete_session_returns(sessions, session_id))
    /\ UNCHANGED <<clock, generations, gen_seq, sess_seq, step_seq, editors,
                   regVars, cmd>>

HandlesNext ==
    \/ HandlesTick
    \/ \E h \in Handles : HandleCreateSession(h)
    \/ \E h \in Handles, id \in 1..MaxSessions : HandleBeginAddStep(h, id)
    \/ \E h \in Handles : HandleCommitAddStep(h)
    \/ \E h \in Handles, id \in 1..MaxSessions : HandleDeleteSession(h, id)

SpecHandles == InitHandles /\ [][HandlesNext]_vars

\* C21: a session's updated timestamp never decreases and is never earlier
\* than the timestamp of any of its persisted steps, whatever add_session_step
\* calls two handles interleave; its initial image path never changes.
C21_UpdatedTimestampMonotone ==
    [][\A s \in sessions' :
          /\ \A ss \in steps_of(session_steps', s.id) :
                s.updated_timestamp >= ss.timestamp
          /\ \A old \in sessions :
                old.id = s.id =>
                    /\ s.updated_timestamp >= old.updated_timestamp
                    /\ s.initial_image_path = old.initial_image_path
      ]_vars

\* C29: every persisted step row's session id refers to an existing session
\* row, whatever create_session, add_session_step and delete_session calls
\* were made, add_session_step for an identifier never created or already
\* deleted included.
C29_NoOrphanSteps ==
    \A ss \in session_steps : \E s \in sessions : s.id = ss.session_id

-----------------------------------------------------------------------------
(* The registry file under two Local Model Registry instances (SpecRegistry) *)

\* the entries the registry file holds
FileItems(file) == file[1].items

\* C22: the registry file is read only when an instance is constructed and
\* is rewritten wholesale from the writing instance's in-memory map on every
\* save_model and on every delete_model that finds the name (a delete_model
\* of an absent name writes nothing), so the file holds the in-memory
\* registry of the instance that wrote last; no call merges the file into
\* an instance's map or another instance's map into the file.
C22_FileIsLastWritersRegistry ==
    [][/\ out'.op = "save_model" =>
              /\ models_file' # None
              /\ models_file'[1].json = "object"
              /\ FileItems(models_file') = models'[out'.args.instance]
              /\ DOMAIN models'[out'.args.instance]
                    = DOMAIN models[out'.args.instance] \cup {out'.args.name}
       /\ (out'.op = "delete_model" /\ out'.ret) =>
              /\ models_file' # None
              /\ models_file'[1].json = "object"
              /\ FileItems(models_file') = models'[out'.args.instance]
              /\ DOMAIN models'[out'.args.instance]
                    = DOMAIN models[out'.args.instance] \ {out'.args.name}
       /\ (out'.op = "delete_model" /\ ~out'.ret) =>
              models_file' = models_file /\ models' = models
       /\ out'.op \in {"load_model", "list_models"} =>
              models_file' = models_file /\ models' = models
       /\ out'.op = "StorageManager" =>
              /\ models_file' = models_file
              /\ Len(models') = Len(models) + 1
              /\ \A j \in DOMAIN models : models'[j] = models[j]
       /\ out'.op \in {"save_model", "delete_model"} =>
              /\ Len(models') = Len(models)
              /\ \A j \in DOMAIN models :
                    j # out'.args.instance => models'[j] = models[j]
      ]_vars

\* two instances were constructed from the same file and each saved a
\* different model: the file holds the last writer's registry only, the
\* other instance's entry is not in it
C22_Witness ==
    /\ out.op = "save_model"
    /\ Len(models) = 2
    /\ models_file # None
    /\ models_file[1].json = "object"
    /\ FileItems(models_file) = models[out.args.instance]
    /\ DOMAIN FileItems(models_file) = {out.args.name}
    /\ \E j \in DOMAIN models :
          /\ j # out.args.instance
          /\ DOMAIN models[j] # {}
          /\ DOMAIN models[j] \cap DOMAIN FileItems(models_file) = {}

\* C22 as stated: every save_model and every delete_model rewrites the file
\* from the calling instance's in-memory map.
C22_FileRewrittenOnEverySaveOrDelete ==
    [][out'.op \in {"save_model", "delete_model"} =>
          /\ models_file' # None
          /\ models_file'[1].json = "object"
          /\ FileItems(models_file') = models'[out'.args.instance]
      ]_vars

-----------------------------------------------------------------------------
(* The Session Editor at mount and at a submitted edit (SpecSession) *)

\* editor 1 has just been mounted
JustMounted ==
    /\ editors = <<>> \/ ~editors[1].running
    /\ editors' # <<>>
    /\ editors'[1].running

\* C23: when the Session Editor mounts on a session, a step is selected: the
\* most recent persisted step if the session has steps, the synthetic
\* initial-image step 0 if it has none.
C23_StepSelectedOnMount ==
    [][(JustMounted /\ editors'[1].session # None) =>
          /\ editors'[1].selected_step # None
          /\ editors'[1].selected_step[1].step_number = Len(editors'[1].steps)
          /\ editors'[1].steps = <<>> =>
                editors'[1].selected_step[1].image_path
                    = editors'[1].session[1].initial_image_path
      ]_vars

\* editor 1, running, has handled a submitted non-empty prompt: it notifies
\* of the outcome, or a step row was written
PromptSubmitted ==
    /\ editors # <<>>
    /\ editors[1].running
    /\ editors'[1].running
    /\ \/ editors'[1].notice # editors[1].notice
       \/ step_seq' # step_seq

\* C24: every submitted non-empty edit prompt appends exactly one step row
\* to the editor's session: a success row with an image path and no error
\* message, or a failure row with an empty image path, the error text and
\* a measured duration; and the reloaded step list shows the new row.
C24_EveryPromptAppendsOneStep ==
    [][PromptSubmitted =>
          \E row \in session_steps' :
              /\ row \notin session_steps
              /\ session_steps' = session_steps \cup {row}
              /\ row.session_id = editors[1].session_id
              /\ IF row.success
                 THEN row.image_path # <<>> /\ row.error_message = None
                 ELSE /\ row.image_path = <<>>
                      /\ row.error_message # None
                      /\ row.generation_time # None
              /\ \E i \in DOMAIN editors'[1].steps : editors'[1].steps[i] = row
      ]_vars

-----------------------------------------------------------------------------
(* SpecEditors: two Session Editors are open at the same time *)

EditorSlots == {1, 2}

EditorsNext ==
    \/ CreateSession("Session 1", InitialImagePath)
    \/ \E e \in EditorSlots, s \in sessions :
          (e = 1 \/ editors # <<>>) /\ OpenEditor(e, s.id)
    \/ \E e \in EditorSlots, k \in 1..(MaxSteps + 1) : SelectStep(e, k)
    \/ \E e \in EditorSlots : SubmitEdit(e, <<" ", "c", "o", "d", " ">>)

SpecEditors == Init /\ [][EditorsNext]_vars

\* C30: no two persisted steps of one session share a step number, also
\* when two Session Editors are open on the session and submit edits in
\* turn without refreshing in between.
C30_StepNumbersUniqueAcrossEditors ==
    \A a, b \in session_steps :
        (a.session_id = b.session_id /\ a.step_number = b.step_number) => a = b

-----------------------------------------------------------------------------
(* The line-based editor (src/src/editor_ui.py) *)

\* a file the editor works on: the initial image, or the file an edit saved
InitialFile == [name |-> "init.png", step |-> 0, timestamp |-> 0]
EditFile(step, ts) == [name |-> "edit_step", step |-> step, timestamp |-> ts]

\* IterativeEditor after start_session(initial_image_path), at the prompt
start_session(initial_image_path) ==
    [pc |-> "input",
     current_image_path |-> initial_image_path,
     edit_history |-> <<[prompt |-> <<"Initial image">>,
                         path |-> initial_image_path]>>,
     current_step |-> 0,
     echo |-> "banner"]

\* an _apply_edit that counts a failed edit as a step
iterative_apply_edit_counts_failures(ed, prompt, answer, ts) ==
    IF apply_edit_error(answer) = None
    THEN [ed EXCEPT
             !.current_step = ed.current_step + 1,
             !.current_image_path = EditFile(ed.current_step + 2, ts),
             !.edit_history = Append(ed.edit_history,
                                     [prompt |-> prompt,
                                      path |-> EditFile(ed.current_step + 2, ts)]),
             !.echo = "Edit applied"]
    ELSE [ed EXCEPT !.current_step = ed.current_step + 1,
                    !.echo = IF answer.uploaded /\ answer.result # None
                                /\ apply_edit_error(answer)
                                      = Some("No edited image returned from API")
                             THEN "No edited image returned from API"
                             ELSE "Edit failed"]

\* _apply_edit(prompt): the image is uploaded, edited, downloaded and saved
\* as edit_step_<current_step + 2>_<timestamp>.jpg, then the state is
\* updated; without images in the result, or on any exception, a message is
\* printed
iterative_apply_edit(ed, prompt, answer, ts) ==
    IF apply_edit_error(answer) = None
    THEN [ed EXCEPT
             !.current_step = ed.current_step + 1,
             !.current_image_path = EditFile(ed.current_step + 2, ts),
             !.edit_history = Append(ed.edit_history,
                                     [prompt |-> prompt,
                                      path |-> EditFile(ed.current_step + 2, ts)]),
             !.echo = "Edit applied"]
    ELSE [ed EXCEPT !.echo = IF answer.uploaded /\ answer.result # None
                                /\ apply_edit_error(answer)
                                      = Some("No edited image returned from API")
                             THEN "No edited image returned from API"
                             ELSE "Edit failed"]

\* a loop that compares the line with the commands as typed
line_command_as_typed(raw) ==
    LET prompt == strip(raw)
    IN  IF prompt = <<>> THEN "empty"
        ELSE IF prompt = <<"q", "u", "i", "t">> THEN "quit"
        ELSE IF prompt = <<"p", "r", "e", "v", "i", "e", "w">> THEN "preview"
        ELSE IF prompt = <<"h", "i", "s", "t", "o", "r", "y">> THEN "history"
        ELSE IF prompt = <<"h", "e", "l", "p">> THEN "help"
        ELSE "edit"

\* what _run_interactive_loop takes the line read for: input().strip() is
\* empty, or its lower() is a command, or it is an edit prompt
line_command(raw) ==
    LET prompt == strip(raw)
    IN  IF prompt = <<>> THEN "empty"
        ELSE IF str_lower(prompt) = <<"q", "u", "i", "t">> THEN "quit"
        ELSE IF str_lower(prompt) = <<"p", "r", "e", "v", "i", "e", "w">> THEN "preview"
        ELSE IF str_lower(prompt) = <<"h", "i", "s", "t", "o", "r", "y">> THEN "history"
        ELSE IF str_lower(prompt) = <<"h", "e", "l", "p">> THEN "help"
        ELSE "edit"

-----------------------------------------------------------------------------
(* SpecLineEditor: a user types lines into the line-based editor *)

MaxLineEdits == 2       \* edits applied

TypedLines ==
    {<<>>, <<" ", " ">>,
     <<"q", "u", "i", "t">>, <<" ", "Q", "u", "I", "T", " ">>,
     <<"p", "r", "e", "v", "i", "e", "w">>, <<"H", "i", "s", "t", "o", "r", "y">>,
     <<"h", "e", "l", "p">>,
     <<"q", "u", "i", "t", " ", "i", "t">>, <<" ", "c", "o", "d">>}

InitLineEditor ==
    /\ InitData
    /\ InitNoRegistry
    /\ cmd = start_session(InitialFile)

\* a line is read that is empty or a command
ReadCommand(raw) ==
    /\ cmd.pc = "input"
    /\ line_command(raw) # "edit"
    /\ cmd' = IF line_command(raw) = "quit"
              THEN [cmd EXCEPT !.pc = "ended", !.echo = "Goodbye"]
              ELSE IF line_command(raw) = "empty" THEN cmd
              ELSE [cmd EXCEPT !.echo = line_command(raw)]
    /\ out' = Returned("input", [raw |-> raw, answer |-> None],
                       [command |-> line_command(raw), applied |-> FALSE])
    /\ UNCHANGED <<clock, generations, gen_seq, sessVars, regVars>>

\* any other line is read: _apply_edit(prompt), during which edit_image
\* logs the generation
ReadEdit(raw) ==
    /\ cmd.pc = "input"
    /\ line_command(raw) = "edit"
    /\ cmd.current_step < MaxLineEdits
    /\ gen_seq < MaxRows
    /\ \E answer \in ApplyEditAnswers, t \in MeasuredTimes :
          LET kw == apply_edit_log_kwargs(strip(raw), answer, t)
          IN  /\ cmd' = iterative_apply_edit(cmd, strip(raw), answer, clock)
              /\ generations' = IF answer.uploaded
                                THEN try_log_generation(generations, gen_seq, kw, clock)
                                ELSE generations
              /\ gen_seq' = IF answer.uploaded
                            THEN try_log_generation_seq(gen_seq, kw)
                            ELSE gen_seq
              /\ out' = Returned("input", [raw |-> raw, answer |-> Some(answer)],
                                 [command |-> "edit", applied |-> TRUE])
    /\ UNCHANGED <<clock, sessVars, regVars>>

\* input() raises EOFError
EndOfInput ==
    /\ cmd.pc = "input"
    /\ cmd' = [cmd EXCEPT !.pc = "ended", !.echo = "Session ended"]
    /\ out' = Raised("input", [raw |-> <<>>, answer |-> None], "EOFError")
    /\ UNCHANGED <<clock, generations, gen_seq, sessVars, regVars>>

\* the user presses Ctrl-C at the prompt
Interrupt ==
    /\ cmd.pc = "input"
    /\ cmd' = [cmd EXCEPT !.pc = "ended", !.echo = "Session interrupted"]
    /\ out' = Raised("input", [raw |-> <<>>, answer |-> None], "KeyboardInterrupt")
    /\ UNCHANGED <<clock, generations, gen_seq, sessVars, regVars>>

\* input() raises another exception (bytes that do not decode): "except
\* Exception" reports it and the loop goes on
InputRaises ==
    /\ cmd.pc = "input"
    /\ cmd' = [cmd EXCEPT !.echo = "Error"]
    /\ out' = Raised("input", [raw |-> <<>>, answer |-> None], "UnicodeDecodeError")
    /\ UNCHANGED <<clock, generations, gen_seq, sessVars, regVars>>

LineEditorNext ==
    \/ \E raw \in TypedLines : ReadCommand(raw)
    \/ \E raw \in TypedLines : ReadEdit(raw)
    \/ EndOfInput
    \/ Interrupt
    \/ InputRaises

SpecLineEditor == InitLineEditor /\ [][LineEditorNext]_vars

\* the editor's state: current image, step counter and history
EditorState(ed) == <<ed.current_image_path, ed.current_step, ed.edit_history>>

\* history length is the step counter plus one and the current image is
\* the last history entry's
HistoryConsistent(ed) ==
    /\ Len(ed.edit_history) = ed.current_step + 1
    /\ ed.current_image_path = ed.edit_history[Len(ed.edit_history)].path

\* C25: apply-edit is all-or-nothing: on success the step counter advances
\* by one, the current image becomes the new file and one (prompt, path)
\* entry is appended to the history; on failure all three are unchanged.
\* Hence the history length is always the step counter plus one and the
\* current image is the last history entry's.
C25_ApplyEditAllOrNothing ==
    [][/\ HistoryConsistent(cmd)
       /\ HistoryConsistent(cmd')
       /\ (out'.op = "input" /\ out'.raised = None /\ out'.ret.applied) =>
             LET answer == out'.args.answer[1]
                 succeeded == /\ answer.uploaded
                              /\ answer.result # None
                              /\ answer.result[1].images # <<>>
                              /\ answer.downloaded
             IN  IF succeeded
                 THEN /\ cmd'.current_step = cmd.current_step + 1
                      /\ cmd'.current_image_path # cmd.current_image_path
                      /\ cmd'.current_image_path.name = "edit_step"
                      /\ cmd'.edit_history =
                            Append(cmd.edit_history,
                                   [prompt |-> strip(out'.args.raw),
                                    path |-> cmd'.current_image_path])
                 ELSE EditorState(cmd') = EditorState(cmd)
      ]_vars

\* a failed edit after a successful one has left the state of the first
C25_Witness ==
    /\ out.op = "input"
    /\ out.raised = None
    /\ out.ret.applied
    /\ ~out.args.answer[1].downloaded
    /\ cmd.current_step = 1
    /\ Len(cmd.edit_history) = 2

\* the typed line, stripped and lowered, is the word
IsCommandWord(raw, word) == str_lower(strip(raw)) = word

\* C26: the loop ends if and only if the line is quit in any letter case,
\* input ends or the user interrupts; empty lines and the preview, history
\* and help commands invoke no apply-edit and change no editor state; every
\* other non-empty line invokes apply-edit; an exception raised while a
\* line is handled is reported and the loop goes on.
C26_LoopEndsOnlyOnQuitEofInterrupt ==
    [][out'.op = "input" =>
          LET raw == out'.args.raw
              quit == IsCommandWord(raw, <<"q", "u", "i", "t">>)
              utility == \/ strip(raw) = <<>>
                         \/ IsCommandWord(raw, <<"p", "r", "e", "v", "i", "e", "w">>)
                         \/ IsCommandWord(raw, <<"h", "i", "s", "t", "o", "r", "y">>)
                         \/ IsCommandWord(raw, <<"h", "e", "l", "p">>)
          IN  /\ cmd.pc = "input"
              /\ cmd'.pc = "ended" <=>
                    \/ out'.raised = None /\ quit
                    \/ out'.raised \in {Some("EOFError"), Some("KeyboardInterrupt")}
              /\ cmd'.pc \in {"input", "ended"}
              /\ out'.raised = None =>
                    /\ (quit \/ utility) =>
                          ~out'.ret.applied /\ EditorState(cmd') = EditorState(cmd)
                    /\ ~(quit \/ utility) => out'.ret.applied
              /\ (out'.raised # None
                  /\ out'.raised \notin {Some("EOFError"), Some("KeyboardInterrupt")}) =>
                    /\ cmd'.pc = "input"
                    /\ cmd'.echo = "Error"
                    /\ EditorState(cmd') = EditorState(cmd)
      ]_vars

\* quit typed in mixed case, with blanks around it, has ended the loop
C26_Witness ==
    /\ out.op = "input"
    /\ out.raised = None
    /\ out.args.raw = <<" ", "Q", "u", "I", "T", " ">>
    /\ cmd.pc = "ended"

-----------------------------------------------------------------------------
(* The image preview (src/src/image_preview.py) *)

\* ImagePreview(): what __init__ found on the machine
ImagePreview(supports_chafa, supports_external) ==
    [supports_chafa |-> supports_chafa, supports_external |-> supports_external]

\* _generate_ascii: the art, or, as every exception is caught inside, the
\* text that says it failed
generate_ascii(outcome) ==
    IF outcome = "rendered" THEN "ascii art" ELSE "[ASCII preview failed]"

\* show_image(image_path): the tiers called, the lines printed and the value
\* returned. world.exists is os.path.exists(image_path); world.chafa,
\* world.rich, world.external and world.ascii are what _show_chafa,
\* _show_rich_image, _show_external and the drawing inside _generate_ascii
\* come to: "rendered", "not rendered" (False is returned) or "raised"
show_image(self, world) ==
    IF ~world.exists
    THEN [ret |-> FALSE, attempted |-> <<>>, printed |-> <<"Image not found">>]
    ELSE
    LET header == <<"Image Preview">>
        chafa == IF self.supports_chafa THEN <<"chafa">> ELSE <<>>
        afterChafa == header \o (IF self.supports_chafa /\ world.chafa = "raised"
                                 THEN <<"Chafa failed">> ELSE <<>>)
        external == IF self.supports_external THEN <<"external">> ELSE <<>>
        afterExternal ==
            afterChafa \o (IF self.supports_external /\ world.external = "raised"
                           THEN <<"External viewer failed">> ELSE <<>>)
    IN  IF self.supports_chafa /\ world.chafa = "rendered"
        THEN [ret |-> TRUE, attempted |-> chafa,
              printed |-> header \o <<"Displayed using Chafa">>]
        ELSE IF world.rich = "rendered"
        THEN [ret |-> TRUE, attempted |-> chafa \o <<"rich">>,
              printed |-> afterChafa \o <<"Displayed using Rich">>]
        ELSE IF self.supports_external /\ world.external = "rendered"
        THEN [ret |-> TRUE, attempted |-> chafa \o <<"rich">> \o external,
              printed |-> afterChafa \o <<"Opened in external image viewer">>]
        ELSE [ret |-> TRUE,
              attempted |-> chafa \o <<"rich">> \o external \o <<"ascii">>,
              printed |-> afterExternal \o <<generate_ascii(world.ascii),
                                             "Displayed using ASCII fallback">>]

-----------------------------------------------------------------------------
(* SpecPreview: images are shown on machines with and without the tools *)

TierOutcomes == {"rendered", "not rendered", "raised"}

\* _show_rich_image and _generate_ascii catch every exception themselves
Worlds ==
    [exists : BOOLEAN, chafa : TierOutcomes, rich : {"rendered", "not rendered"},
     external : TierOutcomes, ascii : {"rendered", "not rendered"}]

InitPreview ==
    /\ InitData
    /\ InitNoRegistry
    /\ cmd = [pc |-> "preview", preview |-> None]

NewImagePreview ==
    /\ cmd.pc = "preview"
    /\ \E c \in BOOLEAN, e \in BOOLEAN :
          cmd' = [cmd EXCEPT !.preview = Some(ImagePreview(c, e))]
    /\ out' = Returned("ImagePreview", <<>>, None)
    /\ UNCHANGED <<clock, generations, gen_seq, sessVars, regVars>>

ShowImage ==
    /\ cmd.pc = "preview"
    /\ cmd.preview # None
    /\ \E world \in Worlds :
          out' = Returned("show_image", [self |-> cmd.preview[1], world |-> world],
                          show_image(cmd.preview[1], world))
    /\ UNCHANGED <<clock, generations, gen_seq, sessVars, regVars, cmd>>

PreviewNext ==
    \/ NewImagePreview
    \/ ShowImage

SpecPreview == InitPreview /\ [][PreviewNext]_vars

\* the tiers of the chain in their order
TierOrder == <<"chafa", "rich", "external", "ascii">>

\* the tier is there to be tried on this machine
TierAvailable(self, tier) ==
    IF tier = "chafa" THEN self.supports_chafa
    ELSE IF tier = "external" THEN self.supports_external
    ELSE TRUE

\* the attribution line of a tier
Attribution(tier) ==
    IF tier = "chafa" THEN "Displayed using Chafa"
    ELSE IF tier = "rich" THEN "Displayed using Rich"
    ELSE IF tier = "external" THEN "Opened in external image viewer"
    ELSE "Displayed using ASCII fallback"

Attributions == {Attribution(TierOrder[i]) : i \in 1..4}

\* C27: show_image returns false without attempting a tier when the file
\* does not exist; otherwise a tier is attempted exactly when it is
\* available and every earlier tier was unavailable or failed, in the fixed
\* order; the one tier that rendered, if any, has its attribution line
\* printed and no other is; and the call returns true if and only if some
\* tier rendered the image.
C27_TrueIffSomeTierRendered ==
    out.op = "show_image" =>
        LET self == out.args.self
            world == out.args.world
            r == out.ret
            tried(i) == \E k \in DOMAIN r.attempted : r.attempted[k] = TierOrder[i]
            rendered(i) == tried(i) /\ world[TierOrder[i]] = "rendered"
            lines == {r.printed[k] : k \in DOMAIN r.printed} \cap Attributions
        IN  IF ~world.exists
            THEN r.ret = FALSE /\ r.attempted = <<>>
            ELSE /\ \A i \in 1..4 :
                       tried(i) <=> /\ TierAvailable(self, TierOrder[i])
                                    /\ \A j \in 1..(i - 1) : ~rendered(j)
                 /\ \A k, l \in DOMAIN r.attempted :
                       k < l => \E i, j \in 1..4 : /\ i < j
                                                   /\ r.attempted[k] = TierOrder[i]
                                                   /\ r.attempted[l] = TierOrder[j]
                 /\ lines = {Attribution(TierOrder[i]) : i \in {j \in 1..4 : rendered(j)}}
                 /\ r.ret = TRUE <=> \E i \in 1..4 : rendered(i)

-----------------------------------------------------------------------------
(* SpecCycles: a Container with services that declare each other *)

CyclicTypes == {"ServiceA", "ServiceB", "ServiceC"}

\* each class registered by itself or by a lambda, ServiceA as a singleton
\* or not, the others as singletons (the default)
CyclicRegistrations ==
    {[type |-> t, factory |-> f, singleton |-> s] :
        t \in CyclicTypes, f \in {"class", "lambda"}, s \in {TRUE}}
    \cup
    {[type |-> "ServiceA", factory |-> "class", singleton |-> FALSE]}

CyclesNext ==
    \/ \E r \in CyclicRegistrations :
          Register([type |-> r.type,
                    factory |-> IF r.factory = "class" THEN ClassFactory(r.type)
                                ELSE LambdaFactory(r.type),
                    singleton |-> r.singleton])
    \/ \E t \in CyclicTypes : Resolve(t)

SpecCycles == InitContainer /\ [][CyclesNext]_vars

\* C28: resolve either returns an instance or fails with "Service X is not
\* registered", after finitely many recursive resolutions (it never uses up
\* the depth of calls), also when registered services declare each other
\* as annotated constructor dependencies, directly or through a chain.
C28_ResolveReturnsOrNotRegistered ==
    out.op = "resolve" =>
        \/ out.raised = None /\ out.ret # None
        \/ out.raised = Some("ValueError") /\ out.args \notin DOMAIN cmd.services

=============================================================================
